---- MODULE Spec2Model ----
(***************************************************************************)
(* Live multiplayer core of chess-api: the WebSocket router, the room      *)
(* store (rooms.js), the wildcard-aware matchmaker (matchmaking.js) and    *)
(* the narrow persistence calls of db.js, as one state machine.            *)
(*                                                                         *)
(* Every handler of the source is one action.  The handlers are written    *)
(* as operators over a record w ("the world") that holds everything a      *)
(* handler can touch, so that a handler that calls another one (joinQueue  *)
(* -> createRoom -> joinRoom, close -> handleDisconnect -> cleanupRoom)    *)
(* is the composition of the operators.                                    *)
(*                                                                         *)
(* Left out, because nothing reads them: room.createdAt, the start_time    *)
(* and end_time columns of games, and the write-only `connections` map of  *)
(* the router (connSession holds the same binding).  Messages carry no     *)
(* display name, so every name is the default the code substitutes.        *)
(***************************************************************************)
EXTENDS Integers, Sequences, FiniteSets, TLC

VARIABLES connState, connSession, rooms, sessionRooms, queues, timers,
          dbGames, dbMoves, now

vars == <<connState, connSession, rooms, sessionRooms, queues, timers,
          dbGames, dbMoves, now>>

---------------------------------------------------------------------------
(* Bounds of the model *)

MaxTicks == 2        \* time advances by at most this many ticks of TickMs
MaxMoves == 2        \* at most this many moves are accepted, over all games
MaxGames == 1        \* CreateGame is called at most this many times (Spec)
MaxRematches == 1    \* at most this many rematches are accepted (SpecRematch)
MaxDbGames == 2      \* at most this many games are stored (SpecDb)
MaxPly == 1          \* addMove is called with plies 0..MaxPly (SpecDb)
MaxQueueLen == 3     \* the operations on one queue are tried on up to this many entries

(* Program constants *)

ROOM_TTL_AFTER_END == 300000
DISCONNECT_GRACE_PERIOD == 60000
DEFAULT_TC == "5+0"

TickMs == DISCONNECT_GRACE_PERIOD

---------------------------------------------------------------------------
(* Value spaces *)

ConnOrder == <<"c1", "c2", "c3", "c4">>
Conns == {ConnOrder[i] : i \in 1..Len(ConnOrder)}
ConnRank(c) == CHOOSE i \in 1..Len(ConnOrder) : ConnOrder[i] = c
Sessions == {"sA", "sB", "sC"}
Codes == {"ABCDEF", "GHJKLM"}
LowerIds == {"abcdef", "ghjklm"}
RoomIds == Codes \cup LowerIds

NoWs == "nows"             \* null for a connection
NoSession == ""            \* null / undefined session id
NoRoomId == ""             \* sessionRooms.get(s) === undefined
NoSide == "-"              \* null side
NoTime == -1               \* null timestamp
Undefined == "undefined"   \* a payload field that is absent
NoRoom == [none |-> TRUE]  \* rooms.get(code) === undefined
NoSlot == [none |-> TRUE]  \* room.black === null
NoClocks == [none |-> TRUE] \* room.clocks === null
NoTc == [none |-> TRUE]    \* parseTimeControl(...) === null

Other(side) == IF side = "w" THEN "b" ELSE "w"

Min(S) == CHOOSE x \in S : \A y \in S : x <= y

\* String.prototype.toUpperCase on the room ids a client can send
toUpperCase(id) ==
  CASE id = "abcdef" -> "ABCDEF"
    [] id = "ghjklm" -> "GHJKLM"
    [] OTHER -> id

---------------------------------------------------------------------------
(* The rule engine (chess.js, external): a game is the sequence of SANs    *)
(* applied so far.  "Nf3" stands for a quiet move, "Qh5#" for a mating     *)
(* move, "Qc7" for a move that stalemates; every other SAN is rejected.    *)

Sans == {"Nf3", "Qh5#", "Qc7", "Zz9"}
LegalSans == {"Nf3", "Qh5#", "Qc7"}

NewChess == <<>>
ChessTurn(ch) == IF Len(ch) % 2 = 0 THEN "w" ELSE "b"
ChessFen(ch) == <<"fen", ch>>
ChessIsCheckmate(ch) == Len(ch) > 0 /\ ch[Len(ch)] = "Qh5#"
ChessIsStalemate(ch) == Len(ch) > 0 /\ ch[Len(ch)] = "Qc7"
ChessIsDraw(ch) == ChessIsStalemate(ch)
ChessIsGameOver(ch) == ChessIsCheckmate(ch) \/ ChessIsDraw(ch)
\* chess.move(san) throws (or returns null) unless the SAN is legal here
ChessCanMove(ch, san) == ~ChessIsGameOver(ch) /\ san \in LegalSans
ChessMove(ch, san) == Append(ch, san)
ChessPlies(ch) == Len(ch)

---------------------------------------------------------------------------
(* The world a handler acts on.  open is the set of connections whose      *)
(* readyState is OPEN.  Two fields are the handler's outputs and not part  *)
(* of the state: sent collects the frames the handler wrote, fin logs the  *)
(* calls of finishGame it made.                                            *)

World ==
  [open |-> {c \in Conns : connState[c] = "open"},
   rooms |-> rooms, sessionRooms |-> sessionRooms, queues |-> queues,
   timers |-> timers, dbGames |-> dbGames, dbMoves |-> dbMoves,
   sent |-> <<>>, fin |-> <<>>]

\* send(ws, type, payload): a silent no-op unless ws is an open connection
send(w, ws, type, payload) ==
  IF ws \in w.open
    THEN [w EXCEPT !.sent = Append(@, [to |-> ws, type |-> type, payload |-> payload])]
    ELSE w

ErrorPayload(message) == [message |-> message]

\* setTimeout returns a handle no live timer or room field holds
TimerIdsInUse(w) ==
  {t.id : t \in w.timers}
    \cup {w.rooms[c].cleanupTimer : c \in {d \in Codes : w.rooms[d] # NoRoom}}
    \cup {w.rooms[c].disconnectTimer : c \in {d \in Codes : w.rooms[d] # NoRoom}}
NewTimerId(w) == Min({i \in 1..(2 * Cardinality(Codes) + 1) : i \notin TimerIdsInUse(w)})

clearTimeout_Noop(pending, handle) == pending

clearTimeout(pending, handle) == {t \in pending : t.id # handle}

---------------------------------------------------------------------------
(* db.js *)

createGame_NoRow(w, metadata) == w

\* INSERT INTO games ...; returns lastInsertRowid (AUTOINCREMENT)
createGame(w, metadata) ==
  [w EXCEPT !.dbGames = Append(@, [time_control |-> metadata.timeControl,
                                    white_name |-> metadata.white,
                                    black_name |-> metadata.black,
                                    result |-> "", result_reason |-> ""])]
lastInsertRowid_Zero(w) == 0

lastInsertRowid(w) == Len(w.dbGames)

\* the stored row of a move
MoveRow(gameId, moveData) ==
  [game_id |-> gameId, ply |-> moveData.ply, san |-> moveData.san, fen |-> moveData.fen,
   timestamp |-> moveData.timestamp, side |-> moveData.side]

\* info.changes > 0: the statement inserted a row
addMoveInserted(w, gameId, moveData) ==
  ~\E r \in w.dbMoves : r.game_id = gameId /\ r.ply = moveData.ply

addMove_Replace(w, gameId, moveData) ==
  [w EXCEPT !.dbMoves = {r \in @ : ~(r.game_id = gameId /\ r.ply = moveData.ply)}
                          \cup {MoveRow(gameId, moveData)}]

\* INSERT OR IGNORE INTO moves ... UNIQUE(game_id, ply)
addMove(w, gameId, moveData) ==
  IF \E r \in w.dbMoves : r.game_id = gameId /\ r.ply = moveData.ply
    THEN w
    ELSE [w EXCEPT !.dbMoves = @ \cup {[game_id |-> gameId, ply |-> moveData.ply,
                                         san |-> moveData.san, fen |-> moveData.fen,
                                         timestamp |-> moveData.timestamp,
                                         side |-> moveData.side]}]

\* UPDATE games SET result = ?, result_reason = ? WHERE id = ?
endGame(w, gameId, result, resultReason) ==
  IF gameId \in 1..Len(w.dbGames)
    THEN [w EXCEPT !.dbGames[gameId].result = result,
                   !.dbGames[gameId].result_reason = resultReason]
    ELSE w

---------------------------------------------------------------------------
(* rooms.js *)

\* parseTimeControl: /^(\d+)\+(\d+)$/ on the time-control strings in use
parseTimeControl(tc) ==
  CASE tc = "1+0" -> [minutes |-> 1, increment |-> 0]
    [] tc = "2+1" -> [minutes |-> 2, increment |-> 1]
    [] tc = "5+0" -> [minutes |-> 5, increment |-> 0]
    [] OTHER -> NoTc

getPlayerSide_White(room, sessionId) == "w"

getPlayerSide(room, sessionId) ==
  IF room.white # NoSlot /\ room.white.sessionId = sessionId THEN "w"
  ELSE IF room.black # NoSlot /\ room.black.sessionId = sessionId THEN "b"
  ELSE NoSide

getPlayerBySide(room, side) == IF side = "w" THEN room.white ELSE room.black

SetPlayer(room, side, p) ==
  IF side = "w" THEN [room EXCEPT !.white = p] ELSE [room EXCEPT !.black = p]

getRoomForSession(w, sessionId) ==
  LET roomId == w.sessionRooms[sessionId]
  IN IF roomId # NoRoomId /\ roomId \in Codes THEN w.rooms[roomId] ELSE NoRoom

cleanupRoom_KeepGraceTimer(w, roomId) ==
  LET room == w.rooms[roomId]
      gone == (IF room.white # NoSlot THEN {room.white.sessionId} ELSE {})
                \cup (IF room.black # NoSlot THEN {room.black.sessionId} ELSE {})
  IN IF room = NoRoom THEN w
     ELSE [w EXCEPT
             !.sessionRooms = [s \in Sessions |-> IF s \in gone THEN NoRoomId ELSE @[s]],
             !.timers = clearTimeout(@, room.cleanupTimer),
             !.rooms[roomId] = NoRoom]

\* for each slot of the room, delete its session's registry entry
cleanupRoom(w, roomId) ==
  LET room == w.rooms[roomId]
      gone == (IF room.white # NoSlot THEN {room.white.sessionId} ELSE {})
                \cup (IF room.black # NoSlot THEN {room.black.sessionId} ELSE {})
  IN IF room = NoRoom THEN w
     ELSE [w EXCEPT
             !.sessionRooms = [s \in Sessions |-> IF s \in gone THEN NoRoomId ELSE @[s]],
             !.timers = clearTimeout(clearTimeout(@, room.cleanupTimer), room.disconnectTimer),
             !.rooms[roomId] = NoRoom]

finishGame_NoCleanupTimer(w, roomId, result, reason) ==
  LET room == w.rooms[roomId]
      w1 == [w EXCEPT !.rooms[roomId].status = "finished",
                      !.fin = Append(@, [room |-> roomId, was |-> room.status,
                                         result |-> result, reason |-> reason])]
      w2 == IF room.dbGameId # 0 THEN endGame(w1, room.dbGameId, result, reason) ELSE w1
      payload == [result |-> result, reason |-> reason]
      w3 == IF room.white.ws # NoWs THEN send(w2, room.white.ws, "game_end", payload) ELSE w2
  IN IF room.black.ws # NoWs THEN send(w3, room.black.ws, "game_end", payload) ELSE w3

finishGame(w, roomId, result, reason) ==
  LET room == w.rooms[roomId]
      w1 == [w EXCEPT !.rooms[roomId].status = "finished",
                      !.fin = Append(@, [room |-> roomId, was |-> room.status,
                                         result |-> result, reason |-> reason])]
      w2 == IF room.dbGameId # 0 THEN endGame(w1, room.dbGameId, result, reason) ELSE w1
      payload == [result |-> result, reason |-> reason]
      w3 == IF room.white.ws # NoWs THEN send(w2, room.white.ws, "game_end", payload) ELSE w2
      w4 == IF room.black.ws # NoWs THEN send(w3, room.black.ws, "game_end", payload) ELSE w3
      id == NewTimerId(w4)
  IN [w4 EXCEPT !.rooms[roomId].cleanupTimer = id,
                !.timers = @ \cup {[id |-> id, kind |-> "cleanup", room |-> roomId,
                                    side |-> NoSide, deadline |-> now + ROOM_TTL_AFTER_END]}]

createRoom(w, ws, sessionId, name, timeControl, roomId) ==
  LET effectiveTc == IF timeControl = "any" THEN "5+0" ELSE timeControl
      tc == parseTimeControl(effectiveTc)
      timeMs == IF tc # NoTc THEN tc.minutes * 60 * 1000 ELSE 0
      room == [id |-> roomId,
               white |-> [ws |-> ws, sessionId |-> sessionId,
                          name |-> IF name = Undefined THEN "White" ELSE name,
                          connected |-> TRUE, disconnectedAt |-> NoTime],
               black |-> NoSlot,
               chess |-> NewChess,
               timeControl |-> IF effectiveTc = Undefined THEN "none" ELSE effectiveTc,
               clocks |-> IF tc # NoTc
                            THEN [w |-> timeMs, b |-> timeMs,
                                  increment |-> tc.increment * 1000, lastMoveAt |-> NoTime]
                            ELSE NoClocks,
               moves |-> <<>>,
               status |-> "waiting",
               dbGameId |-> 0,
               cleanupTimer |-> 0,
               disconnectTimer |-> 0,
               rematchOfferedBy |-> NoSide]
      w1 == [w EXCEPT !.rooms[roomId] = room, !.sessionRooms[sessionId] = roomId]
  IN send(w1, ws, "room_created", [roomId |-> roomId, color |-> "w"])

\* the display value without the clamp at 0
getCurrentClockTime_NoClamp(room, side) ==
  LET base == room.clocks[side]
  IN IF room.status = "playing" /\ ChessTurn(room.chess) = side
          /\ room.clocks.lastMoveAt # NoTime /\ room.clocks.lastMoveAt # 0
       THEN base - (now - room.clocks.lastMoveAt)
       ELSE base

getCurrentClockTime(room, side) ==
  LET base == room.clocks[side]
  IN IF room.status = "playing" /\ ChessTurn(room.chess) = side
          /\ room.clocks.lastMoveAt # NoTime /\ room.clocks.lastMoveAt # 0
       THEN LET elapsed == now - room.clocks.lastMoveAt
                left == base - elapsed
            IN IF left > 0 THEN left ELSE 0
       ELSE base

\* the payload of the reconnect frame
reconnectPayload(room, side) ==
  [roomId |-> room.id, color |-> side, fen |-> ChessFen(room.chess),
   timeControl |-> room.timeControl,
   moves |-> [i \in 1..Len(room.moves) |-> room.moves[i].san],
   clocks |-> IF room.clocks # NoClocks
                THEN [w |-> getCurrentClockTime(room, "w"),
                      b |-> getCurrentClockTime(room, "b")]
                ELSE NoClocks,
   opponentName |-> getPlayerBySide(room, Other(side)).name,
   opponentConnected |-> getPlayerBySide(room, Other(side)).connected]

attemptReconnect(w, ws, sessionId, roomId) ==
  LET room == w.rooms[roomId]
      side == getPlayerSide(room, sessionId)
  IN IF side = NoSide
       THEN send(w, ws, "error", ErrorPayload("You are not a player in this room"))
       ELSE
         LET player == [getPlayerBySide(room, side) EXCEPT
                          !.ws = ws, !.connected = TRUE, !.disconnectedAt = NoTime]
             room1 == SetPlayer(room, side, player)
             w1 == IF room.disconnectTimer # 0
                     THEN [w EXCEPT !.timers = clearTimeout(@, room.disconnectTimer),
                                    !.rooms[roomId] = [room1 EXCEPT !.disconnectTimer = 0]]
                     ELSE [w EXCEPT !.rooms[roomId] = room1]
             room2 == w1.rooms[roomId]
             opponent == getPlayerBySide(room2, Other(side))
             w2 == send(w1, ws, "reconnect", reconnectPayload(room2, side))
         IN IF opponent # NoSlot /\ opponent.ws # NoWs
              THEN send(w2, opponent.ws, "opponent_reconnected", [empty |-> TRUE])
              ELSE w2

joinRoom(w, ws, sessionId, name, roomId) ==
  LET code == toUpperCase(roomId)
      room == w.rooms[code]
  IN IF room = NoRoom THEN send(w, ws, "error", ErrorPayload("Room not found"))
     ELSE IF room.status # "waiting" THEN
       IF room.status = "playing" THEN attemptReconnect(w, ws, sessionId, code)
       ELSE send(w, ws, "error", ErrorPayload("Room is not accepting players"))
     ELSE IF room.white.sessionId = sessionId
       THEN send(w, ws, "error", ErrorPayload("You are already in this room"))
     ELSE
       LET black == [ws |-> ws, sessionId |-> sessionId,
                     name |-> IF name = Undefined THEN "Black" ELSE name,
                     connected |-> TRUE, disconnectedAt |-> NoTime]
           w1 == [w EXCEPT !.rooms[code].black = black,
                           !.rooms[code].status = "playing",
                           !.sessionRooms[sessionId] = roomId]
           w2 == createGame(w1, [timeControl |-> room.timeControl,
                                 white |-> room.white.name, black |-> black.name])
           w3 == [w2 EXCEPT !.rooms[code].dbGameId = lastInsertRowid(w2)]
           w4 == IF room.clocks # NoClocks
                   THEN [w3 EXCEPT !.rooms[code].clocks.lastMoveAt = now]
                   ELSE w3
           startPayload(color, opp) ==
             [roomId |-> room.id, fen |-> ChessFen(room.chess),
              timeControl |-> room.timeControl, color |-> color, opponentName |-> opp]
           w5 == send(w4, room.white.ws, "game_start", startPayload("w", black.name))
       IN send(w5, black.ws, "game_start", startPayload("b", room.white.name))

\* The result of makeMove: the world after it and the error it returns ("" for ok)
MoveResult(w, error) == [w |-> w, error |-> error]

\* the checks without the one of the turn
moveError_NoTurnCheck(w, sessionId, san) ==
  LET roomId == w.sessionRooms[sessionId]
  IN IF roomId = NoRoomId THEN "Not in a room"
     ELSE IF roomId \notin Codes \/ w.rooms[roomId] = NoRoom
             \/ w.rooms[roomId].status # "playing"
       THEN "Game not in progress"
     ELSE IF ~ChessCanMove(w.rooms[roomId].chess, san) THEN "Invalid move"
     ELSE ""

\* the checks with the SAN tried on the engine before the turn is looked at
moveError_SanBeforeTurn(w, sessionId, san) ==
  LET roomId == w.sessionRooms[sessionId]
  IN IF roomId = NoRoomId THEN "Not in a room"
     ELSE IF roomId \notin Codes \/ w.rooms[roomId] = NoRoom
             \/ w.rooms[roomId].status # "playing"
       THEN "Game not in progress"
     ELSE
       LET room == w.rooms[roomId]
           player == getPlayerBySide(room, ChessTurn(room.chess))
       IN IF ~ChessCanMove(room.chess, san) THEN "Invalid move"
          ELSE IF player = NoSlot \/ player.sessionId # sessionId THEN "Not your turn"
          ELSE ""

\* the checks of makeMove, in the order the code makes them; "" when all pass
moveError(w, sessionId, san) ==
  LET roomId == w.sessionRooms[sessionId]
  IN IF roomId = NoRoomId THEN "Not in a room"
     ELSE IF roomId \notin Codes \/ w.rooms[roomId] = NoRoom
             \/ w.rooms[roomId].status # "playing"
       THEN "Game not in progress"
     ELSE
       LET room == w.rooms[roomId]
           player == getPlayerBySide(room, ChessTurn(room.chess))
       IN IF player = NoSlot \/ player.sessionId # sessionId THEN "Not your turn"
          ELSE IF ~ChessCanMove(room.chess, san) THEN "Invalid move"
          ELSE ""

\* the clock charged from the first move on
ClockRuns_FromFirstMove(room) == room.clocks # NoClocks

\* `room.clocks && room.moves.length > 0`: the clock of the mover is charged
ClockRuns(room) == room.clocks # NoClocks /\ Len(room.moves) > 0

makeMove(w, sessionId, san) ==
  LET roomId == w.sessionRooms[sessionId]
  IN IF moveError(w, sessionId, san) # "" THEN MoveResult(w, moveError(w, sessionId, san))
     ELSE
       LET room == w.rooms[roomId]
           turn == ChessTurn(room.chess)
           player == getPlayerBySide(room, turn)
       IN   LET chess1 == ChessMove(room.chess, san)
                fen == ChessFen(chess1)
                timed == ClockRuns(room)
                elapsed == now - room.clocks.lastMoveAt
                left == room.clocks[turn] - elapsed
            IN IF timed /\ left <= 0
                 THEN \* flag fall: the move stays applied to the engine, nothing is logged
                   LET winner == Other(turn)
                       result == IF winner = "w" THEN "1-0" ELSE "0-1"
                       w1 == [w EXCEPT !.rooms[roomId].chess = chess1,
                                       !.rooms[roomId].clocks[turn] = 0]
                   IN MoveResult(finishGame(w1, roomId, result, "timeout"), "")
                 ELSE
                   LET clocks1 == IF timed
                                    THEN [room.clocks EXCEPT ![turn] = left + room.clocks.increment]
                                    ELSE room.clocks
                       clocks2 == IF room.clocks # NoClocks
                                    THEN [clocks1 EXCEPT !.lastMoveAt = now]
                                    ELSE clocks1
                       moveRecord == [ply |-> Len(room.moves), san |-> san, fen |-> fen,
                                      timestamp |-> now, side |-> turn]
                       w1 == [w EXCEPT !.rooms[roomId].chess = chess1,
                                       !.rooms[roomId].clocks = clocks2,
                                       !.rooms[roomId].moves = Append(@, moveRecord)]
                       w2 == IF room.dbGameId # 0 THEN addMove(w1, room.dbGameId, moveRecord) ELSE w1
                       clockPayload == IF clocks2 # NoClocks
                                         THEN [w |-> clocks2.w, b |-> clocks2.b]
                                         ELSE NoClocks
                       opponent == getPlayerBySide(room, Other(turn))
                       w3 == IF opponent # NoSlot /\ opponent.ws # NoWs
                               THEN send(w2, opponent.ws, "move",
                                         [san |-> san, fen |-> fen, clocks |-> clockPayload])
                               ELSE w2
                       w4 == IF player.ws # NoWs /\ clockPayload # NoClocks
                               THEN send(w3, player.ws, "move_ack", [clocks |-> clockPayload])
                               ELSE w3
                   IN IF ChessIsGameOver(chess1)
                        THEN LET result == IF ChessIsCheckmate(chess1)
                                             THEN (IF turn = "w" THEN "1-0" ELSE "0-1")
                                             ELSE "1/2-1/2"
                                 reason == IF ChessIsCheckmate(chess1) THEN "checkmate"
                                           ELSE "stalemate"
                             IN MoveResult(finishGame(w4, roomId, result, reason), "")
                        ELSE MoveResult(w4, "")

\* The room the registry gives for a session, when it is live and in `status`
RoomInStatus(w, sessionId, status) ==
  LET roomId == w.sessionRooms[sessionId]
  IN roomId # NoRoomId /\ roomId \in Codes /\ w.rooms[roomId] # NoRoom
       /\ w.rooms[roomId].status = status

handleResign(w, sessionId) ==
  IF ~RoomInStatus(w, sessionId, "playing") THEN w
  ELSE LET roomId == w.sessionRooms[sessionId]
           side == getPlayerSide(w.rooms[roomId], sessionId)
       IN IF side = NoSide THEN w
          ELSE finishGame(w, roomId, IF side = "w" THEN "0-1" ELSE "1-0", "resignation")

(* The calls of addMove (rooms.js:160-162) and endGame (rooms.js:416-418) are in no
   try block, and better-sqlite3 throws when a statement fails: the handler stops at
   the call, with what it has done so far. *)

\* makeMove gets as far as its call of addMove
addMoveCalled(w, sessionId, san) ==
  /\ moveError(w, sessionId, san) = ""
  /\ LET room == w.rooms[w.sessionRooms[sessionId]]
         turn == ChessTurn(room.chess)
     IN /\ ~(ClockRuns(room) /\ room.clocks[turn] - (now - room.clocks.lastMoveAt) <= 0)
        /\ room.dbGameId # 0

\* makeMove when its call of addMove throws: engine, clocks and move log are updated,
\* nothing is sent and the game-over detection is not reached
makeMoveAddMoveThrows(w, sessionId, san) ==
  LET roomId == w.sessionRooms[sessionId]
      room == w.rooms[roomId]
      turn == ChessTurn(room.chess)
      chess1 == ChessMove(room.chess, san)
      left == room.clocks[turn] - (now - room.clocks.lastMoveAt)
      clocks1 == IF ClockRuns(room)
                   THEN [room.clocks EXCEPT ![turn] = left + room.clocks.increment]
                   ELSE room.clocks
      clocks2 == IF room.clocks # NoClocks
                   THEN [clocks1 EXCEPT !.lastMoveAt = now]
                   ELSE clocks1
      moveRecord == [ply |-> Len(room.moves), san |-> san, fen |-> ChessFen(chess1),
                     timestamp |-> now, side |-> turn]
  IN [w EXCEPT !.rooms[roomId].chess = chess1,
               !.rooms[roomId].clocks = clocks2,
               !.rooms[roomId].moves = Append(@, moveRecord)]

\* finishGame when its call of endGame throws: the status is set and nothing else
finishGameEndGameThrows(w, roomId, result, reason) ==
  [w EXCEPT !.rooms[roomId].status = "finished",
            !.fin = Append(@, [room |-> roomId, was |-> w.rooms[roomId].status,
                               result |-> result, reason |-> reason])]

\* handleResign gets as far as finishGame's call of endGame
endGameCalled(w, sessionId) ==
  /\ RoomInStatus(w, sessionId, "playing")
  /\ getPlayerSide(w.rooms[w.sessionRooms[sessionId]], sessionId) # NoSide
  /\ w.rooms[w.sessionRooms[sessionId]].dbGameId # 0

handleResignEndGameThrows(w, sessionId) ==
  LET roomId == w.sessionRooms[sessionId]
      side == getPlayerSide(w.rooms[roomId], sessionId)
  IN finishGameEndGameThrows(w, roomId, IF side = "w" THEN "0-1" ELSE "1-0", "resignation")

(* The calls of createGame in joinRoom (rooms.js:86-92) and in handleRematchResponse
   (rooms.js:299-305) are in no try block either, and come after the room is changed. *)

\* joinRoom gets as far as its call of createGame
joinCreateGameCalled(w, sessionId, roomId) ==
  LET room == w.rooms[toUpperCase(roomId)]
  IN room # NoRoom /\ room.status = "waiting" /\ room.white.sessionId # sessionId

\* joinRoom when its call of createGame throws: the joiner is seated, the room is
\* playing and the registry is written; no game id, no clock start, no game_start
joinRoomCreateGameThrows(w, ws, sessionId, name, roomId) ==
  LET code == toUpperCase(roomId)
      black == [ws |-> ws, sessionId |-> sessionId,
                name |-> IF name = Undefined THEN "Black" ELSE name,
                connected |-> TRUE, disconnectedAt |-> NoTime]
  IN [w EXCEPT !.rooms[code].black = black,
               !.rooms[code].status = "playing",
               !.sessionRooms[sessionId] = roomId]

handleDrawOffer(w, sessionId) ==
  IF ~RoomInStatus(w, sessionId, "playing") THEN w
  ELSE LET room == w.rooms[w.sessionRooms[sessionId]]
           side == getPlayerSide(room, sessionId)
           opponent == getPlayerBySide(room, Other(side))
       IN IF side = NoSide THEN w
          ELSE IF opponent # NoSlot /\ opponent.ws # NoWs
            THEN send(w, opponent.ws, "draw_offered", [empty |-> TRUE])
          ELSE w

handleDrawResponse(w, sessionId, accept) ==
  IF ~RoomInStatus(w, sessionId, "playing") THEN w
  ELSE LET roomId == w.sessionRooms[sessionId]
           room == w.rooms[roomId]
           side == getPlayerSide(room, sessionId)
           opponent == getPlayerBySide(room, Other(side))
       IN IF side = NoSide THEN w
          ELSE IF accept THEN finishGame(w, roomId, "1/2-1/2", "agreement")
          ELSE IF opponent # NoSlot /\ opponent.ws # NoWs
            THEN send(w, opponent.ws, "draw_declined", [empty |-> TRUE])
          ELSE w

handleRematchOffer(w, sessionId) ==
  IF ~RoomInStatus(w, sessionId, "finished") THEN w
  ELSE LET roomId == w.sessionRooms[sessionId]
           room == w.rooms[roomId]
           side == getPlayerSide(room, sessionId)
           opponent == getPlayerBySide(room, Other(side))
           w1 == [w EXCEPT !.rooms[roomId].rematchOfferedBy = side]
       IN IF side = NoSide THEN w
          ELSE IF opponent # NoSlot /\ opponent.ws # NoWs
            THEN send(w1, opponent.ws, "rematch_offered", [empty |-> TRUE])
          ELSE w1

\* the slots of the new game: fresh objects that copy ws, sessionId, name, connected
rematchSlots(room) ==
  LET oldWhite == room.white
      oldBlack == room.black
  IN [white |-> [ws |-> oldBlack.ws, sessionId |-> oldBlack.sessionId,
                 name |-> oldBlack.name, connected |-> oldBlack.connected,
                 disconnectedAt |-> NoTime],
      black |-> [ws |-> oldWhite.ws, sessionId |-> oldWhite.sessionId,
                 name |-> oldWhite.name, connected |-> oldWhite.connected,
                 disconnectedAt |-> NoTime]]

handleRematchResponse(w, sessionId, accept) ==
  IF ~RoomInStatus(w, sessionId, "finished") THEN w
  ELSE
    LET roomId == w.sessionRooms[sessionId]
        room == w.rooms[roomId]
    IN IF ~accept
         THEN LET side == getPlayerSide(room, sessionId)
                  opponent == getPlayerBySide(room, Other(side))
              IN IF opponent # NoSlot /\ opponent.ws # NoWs
                   THEN send(w, opponent.ws, "rematch_declined", [empty |-> TRUE])
                   ELSE w
         ELSE
           LET white == rematchSlots(room).white
               black == rematchSlots(room).black
               tc == parseTimeControl(room.timeControl)
               timeMs == tc.minutes * 60 * 1000
               w1 == [w EXCEPT
                        !.timers = clearTimeout(@, room.cleanupTimer),
                        !.rooms[roomId].white = white,
                        !.rooms[roomId].black = black,
                        !.rooms[roomId].chess = NewChess,
                        !.rooms[roomId].moves = <<>>,
                        !.rooms[roomId].status = "playing",
                        !.rooms[roomId].rematchOfferedBy = NoSide,
                        !.rooms[roomId].clocks =
                           IF tc # NoTc
                             THEN [w |-> timeMs, b |-> timeMs,
                                   increment |-> tc.increment * 1000, lastMoveAt |-> now]
                             ELSE @]
               w2 == createGame(w1, [timeControl |-> room.timeControl,
                                     white |-> white.name, black |-> black.name])
               w3 == [w2 EXCEPT !.rooms[roomId].dbGameId = lastInsertRowid(w2)]
               startPayload(color, opp) ==
                 [roomId |-> room.id, fen |-> ChessFen(NewChess),
                  timeControl |-> room.timeControl, color |-> color, opponentName |-> opp]
               w4 == send(w3, white.ws, "rematch_start", startPayload("w", black.name))
           IN send(w4, black.ws, "rematch_start", startPayload("b", white.name))

\* handleRematchResponse, accepted, when its call of createGame throws: the cleanup
\* timer is cleared, the colours are swapped, engine, move log and clocks are new and
\* the room is playing; the game id is the old one and no rematch_start is sent
handleRematchResponseCreateGameThrows(w, sessionId) ==
  LET roomId == w.sessionRooms[sessionId]
      room == w.rooms[roomId]
      tc == parseTimeControl(room.timeControl)
      timeMs == tc.minutes * 60 * 1000
  IN [w EXCEPT !.timers = clearTimeout(@, room.cleanupTimer),
               !.rooms[roomId].white = rematchSlots(room).white,
               !.rooms[roomId].black = rematchSlots(room).black,
               !.rooms[roomId].chess = NewChess,
               !.rooms[roomId].moves = <<>>,
               !.rooms[roomId].status = "playing",
               !.rooms[roomId].rematchOfferedBy = NoSide,
               !.rooms[roomId].clocks =
                  IF tc # NoTc
                    THEN [w |-> timeMs, b |-> timeMs,
                          increment |-> tc.increment * 1000, lastMoveAt |-> now]
                    ELSE @]

\* rooms.handleDisconnect; the grace timer's closure holds the room and the side
handleDisconnect(w, sessionId) ==
  LET roomId == w.sessionRooms[sessionId]
  IN IF roomId = NoRoomId \/ roomId \notin Codes \/ w.rooms[roomId] = NoRoom THEN w
     ELSE
       LET room == w.rooms[roomId]
           side == getPlayerSide(room, sessionId)
       IN IF side = NoSide THEN w
          ELSE
            LET player == [getPlayerBySide(room, side) EXCEPT
                             !.connected = FALSE, !.ws = NoWs, !.disconnectedAt = now]
                room1 == SetPlayer(room, side, player)
                w1 == [w EXCEPT !.rooms[roomId] = room1]
                opponent == getPlayerBySide(room1, Other(side))
                w2 == IF opponent # NoSlot /\ opponent.ws # NoWs
                        THEN send(w1, opponent.ws, "opponent_disconnected",
                                  [timeout |-> DISCONNECT_GRACE_PERIOD \div 1000])
                        ELSE w1
                id == NewTimerId(w2)
            IN IF room.status = "waiting" THEN cleanupRoom(w1, roomId)
               ELSE IF room.disconnectTimer = 0
                 THEN [w2 EXCEPT !.rooms[roomId].disconnectTimer = id,
                                 !.timers = @ \cup {[id |-> id, kind |-> "disconnect",
                                                     room |-> roomId, side |-> side,
                                                     deadline |-> now + DISCONNECT_GRACE_PERIOD]}]
                 ELSE w2

\* the callback without its re-check of the room's status
disconnectTimerCallback_NoStatusCheck(w, t) ==
  LET room == w.rooms[t.room]
      p == getPlayerBySide(room, t.side)
  IN IF ~p.connected
       THEN finishGame(w, t.room, IF t.side = "w" THEN "0-1" ELSE "1-0", "abandoned")
       ELSE w

\* the callback of the grace timer t
disconnectTimerCallback(w, t) ==
  LET room == w.rooms[t.room]
      p == getPlayerBySide(room, t.side)
  IN IF ~p.connected /\ room.status = "playing"
       THEN finishGame(w, t.room, IF t.side = "w" THEN "0-1" ELSE "1-0", "abandoned")
       ELSE w

---------------------------------------------------------------------------
(* matchmaking.js: queues is the Map in insertion order, as a sequence of  *)
(* [tc, q] entries; an entry of q is {ws, sessionId, name}.                *)

RemoveAt(seq, i) == SubSeq(seq, 1, i - 1) \o SubSeq(seq, i + 1, Len(seq))

\* queues.get(tc): the index of the tag's queue, 0 when the Map has none
QueueIndex(qs, tc) ==
  IF \E i \in 1..Len(qs) : qs[i].tc = tc
    THEN CHOOSE i \in 1..Len(qs) : qs[i].tc = tc
    ELSE 0

ShiftQueue_Peek(qs, i) == qs

\* queue.shift(), then queues.delete(tc) if that emptied the queue
ShiftQueue(qs, i) ==
  IF Len(qs[i].q) = 1 THEN RemoveAt(qs, i) ELSE [qs EXCEPT ![i].q = Tail(@)]

NoMatch(qs) == [found |-> FALSE, queues |-> qs]
Match(qs, i, matchTc) ==
  [found |-> TRUE, opponent |-> Head(qs[i].q), matchTc |-> matchTc, queues |-> ShiftQueue(qs, i)]

\* a specific tag paired from the "any" queue takes that queue's tag
findMatch_AnyQueueTag(qs, tc) ==
  IF tc = "any"
    THEN LET nonEmpty == {i \in 1..Len(qs) : Len(qs[i].q) > 0}
         IN IF nonEmpty = {} THEN NoMatch(qs)
            ELSE LET i == Min(nonEmpty)
                 IN Match(qs, i, IF qs[i].tc = "any" THEN DEFAULT_TC ELSE qs[i].tc)
    ELSE LET same == QueueIndex(qs, tc)
             any == QueueIndex(qs, "any")
         IN IF same # 0 /\ Len(qs[same].q) > 0 THEN Match(qs, same, tc)
            ELSE IF any # 0 /\ Len(qs[any].q) > 0 THEN Match(qs, any, qs[any].tc)
            ELSE NoMatch(qs)

\* a join with the tag "any" takes the queue that comes last in the Map
findMatch_LastQueue(qs, tc) ==
  IF tc = "any"
    THEN LET nonEmpty == {i \in 1..Len(qs) : Len(qs[i].q) > 0}
         IN IF nonEmpty = {} THEN NoMatch(qs)
            ELSE LET i == CHOOSE k \in nonEmpty : \A m \in nonEmpty : m <= k
                 IN Match(qs, i, IF qs[i].tc = "any" THEN DEFAULT_TC ELSE qs[i].tc)
    ELSE LET same == QueueIndex(qs, tc)
             any == QueueIndex(qs, "any")
         IN IF same # 0 /\ Len(qs[same].q) > 0 THEN Match(qs, same, tc)
            ELSE IF any # 0 /\ Len(qs[any].q) > 0 THEN Match(qs, any, tc)
            ELSE NoMatch(qs)

findMatch(qs, tc) ==
  IF tc = "any"
    THEN LET nonEmpty == {i \in 1..Len(qs) : Len(qs[i].q) > 0}
         IN IF nonEmpty = {} THEN NoMatch(qs)
            ELSE LET i == Min(nonEmpty)
                 IN Match(qs, i, IF qs[i].tc = "any" THEN DEFAULT_TC ELSE qs[i].tc)
    ELSE LET same == QueueIndex(qs, tc)
             any == QueueIndex(qs, "any")
         IN IF same # 0 /\ Len(qs[same].q) > 0 THEN Match(qs, same, tc)
            ELSE IF any # 0 /\ Len(qs[any].q) > 0 THEN Match(qs, any, tc)
            ELSE NoMatch(qs)

InQueue(qs, sessionId) ==
  \E i \in 1..Len(qs) : \E j \in 1..Len(qs[i].q) : qs[i].q[j].sessionId = sessionId

removeFromQueue(qs, sessionId) ==
  IF ~InQueue(qs, sessionId) THEN qs
  ELSE LET i == Min({k \in 1..Len(qs) :
                       \E j \in 1..Len(qs[k].q) : qs[k].q[j].sessionId = sessionId})
           j == Min({k \in 1..Len(qs[i].q) : qs[i].q[k].sessionId = sessionId})
       IN IF Len(qs[i].q) = 1 THEN RemoveAt(qs, i)
          ELSE [qs EXCEPT ![i].q = RemoveAt(@, j)]

leaveQueue(w, sessionId) == [w EXCEPT !.queues = removeFromQueue(@, sessionId)]

\* queues.get(tc).push(player), creating the queue at the end of the Map if needed
Enqueue(qs, tc, player) ==
  LET i == QueueIndex(qs, tc)
  IN IF i = 0 THEN Append(qs, [tc |-> tc, q |-> <<player>>])
     ELSE [qs EXCEPT ![i].q = Append(@, player)]

opponentConnected_Always(w, opponent) == TRUE

\* opponent.ws && opponent.ws.readyState === 1
opponentConnected(w, opponent) == opponent.ws \in w.open

\* creatorIsWhite is the coin Math.random() < 0.5, roomId the code generateRoomCode draws
RECURSIVE joinQueue(_, _, _, _, _, _, _)
joinQueue(w, ws, sessionId, name, timeControl, creatorIsWhite, roomId) ==
  LET tc == IF timeControl = Undefined THEN DEFAULT_TC ELSE timeControl
      player == [ws |-> ws, sessionId |-> sessionId,
                 name |-> IF name = Undefined THEN "Player" ELSE name]
      match == findMatch(w.queues, tc)
      w1 == [w EXCEPT !.queues = match.queues]
  IN IF InQueue(w.queues, sessionId)
       THEN send(w, ws, "error", ErrorPayload("Already in queue"))
     ELSE IF getRoomForSession(w, sessionId) # NoRoom
       THEN send(w, ws, "error", ErrorPayload("Already in a game"))
     ELSE IF match.found
       THEN IF ~opponentConnected(w, match.opponent)
              THEN joinQueue([w1 EXCEPT !.queues = removeFromQueue(@, match.opponent.sessionId)],
                             ws, sessionId, name, timeControl, creatorIsWhite, roomId)
              ELSE LET whitePlayer == IF creatorIsWhite THEN match.opponent ELSE player
                       blackPlayer == IF creatorIsWhite THEN player ELSE match.opponent
                       w2 == createRoom(w1, whitePlayer.ws, whitePlayer.sessionId,
                                        whitePlayer.name, match.matchTc, roomId)
                   IN joinRoom(w2, blackPlayer.ws, blackPlayer.sessionId, blackPlayer.name, roomId)
     ELSE LET qs == Enqueue(w.queues, tc, player)
          IN send([w EXCEPT !.queues = qs], ws, "queue_joined",
                  [timeControl |-> tc, position |-> Len(qs[QueueIndex(qs, tc)].q)])

-------------------------------------------------------------------------------------------------------------------------------------------------
(* The router.  For every event of a connection and every timer callback,  *)
(* OnX is the world the handler leaves and X the action that commits it.   *)

\* the handler is over: its world becomes the state
Commit(w) ==
  /\ rooms' = w.rooms
  /\ sessionRooms' = w.sessionRooms
  /\ queues' = w.queues
  /\ timers' = w.timers
  /\ dbGames' = w.dbGames
  /\ dbMoves' = w.dbMoves

Authed(c) == connState[c] = "open" /\ connSession[c] # NoSession

FreeCodes == {code \in Codes : rooms[code] = NoRoom}

Init ==
  /\ connState = [c \in Conns |-> "new"]
  /\ connSession = [c \in Conns |-> NoSession]
  /\ rooms = [code \in Codes |-> NoRoom]
  /\ sessionRooms = [s \in Sessions |-> NoRoomId]
  /\ queues = <<>>
  /\ timers = {}
  /\ dbGames = <<>>
  /\ dbMoves = {}
  /\ now = TickMs

\* wss.on('connection').  Connections are taken in the order of ConnOrder, and a
\* connection that has not authenticated is inert, so the next one is opened only
\* when no open connection is left unauthenticated: the order of the connections
\* is the order in which they authenticate.
Connect(c) ==
  /\ connState[c] = "new"
  /\ \A d \in Conns : ConnRank(d) < ConnRank(c) => connState[d] # "new"
  /\ \A d \in Conns : connState[d] = "open" => connSession[d] # NoSession
  /\ connState' = [connState EXCEPT ![c] = "open"]
  /\ UNCHANGED <<connSession, rooms, sessionRooms, queues, timers, dbGames, dbMoves, now>>

\* a first frame that is not auth, or auth without sessionId
OnFirstFrameNotAuth(c) ==
  send(World, c, "error", ErrorPayload("First message must be auth with sessionId"))

FirstFrameNotAuth(c) ==
  /\ connState[c] = "open" /\ connSession[c] = NoSession
  /\ Commit(OnFirstFrameNotAuth(c))
  /\ UNCHANGED <<connState, connSession, now>>

OnAuth(c, s) ==
  LET existingRoom == getRoomForSession(World, s)
      w1 == IF existingRoom # NoRoom /\ existingRoom.status = "playing"
              THEN joinRoom(World, c, s, Undefined, existingRoom.id)
              ELSE World
  IN send(w1, c, "auth_ok", [empty |-> TRUE])

Auth(c, s) ==
  /\ connState[c] = "open" /\ connSession[c] = NoSession
  /\ connSession' = [connSession EXCEPT ![c] = s]
  /\ Commit(OnAuth(c, s))
  /\ UNCHANGED <<connState, now>>

\* the handshake gate: the session a frame binds an unbound connection to, NoSession
\* when the frame is not auth or carries no sessionId
GateSession_AnyType(type, sessionId) == sessionId

GateSession(type, sessionId) ==
  IF type # "auth" \/ sessionId = NoSession THEN NoSession ELSE sessionId

\* any frame on a connection that is not bound yet
OnUnboundFrame(c, type, sessionId) ==
  IF GateSession(type, sessionId) = NoSession
    THEN OnFirstFrameNotAuth(c)
    ELSE OnAuth(c, sessionId)

UnboundFrame(c, type, sessionId) ==
  /\ connState[c] = "open" /\ connSession[c] = NoSession
  /\ connSession' = [connSession EXCEPT ![c] = GateSession(type, sessionId)]
  /\ Commit(OnUnboundFrame(c, type, sessionId))
  /\ UNCHANGED <<connState, now>>

\* a frame on a bound connection whose type the switch does not know (auth included)
OnUnknownType(c, type) ==
  send(World, c, "error", ErrorPayload(<<"Unknown message type: ", type>>))

UnknownTypeMsg(c, type) ==
  /\ Authed(c)
  /\ Commit(OnUnknownType(c, type))
  /\ UNCHANGED <<connState, connSession, now>>

OnCreateRoom(c, timeControl, roomId) ==
  createRoom(World, c, connSession[c], Undefined, timeControl, roomId)

CreateRoomMsg(c, timeControl, roomId) ==
  /\ Authed(c)
  /\ roomId \in FreeCodes
  /\ Commit(OnCreateRoom(c, timeControl, roomId))
  /\ UNCHANGED <<connState, connSession, now>>

OnJoinRoom(c, roomId) == joinRoom(World, c, connSession[c], Undefined, roomId)

JoinRoomMsg(c, roomId) ==
  /\ Authed(c)
  /\ Commit(OnJoinRoom(c, roomId))
  /\ UNCHANGED <<connState, connSession, now>>

OnQuickMatch(c, timeControl, creatorIsWhite, roomId) ==
  joinQueue(World, c, connSession[c], Undefined, timeControl, creatorIsWhite, roomId)

QuickMatchMsg(c, timeControl, creatorIsWhite, roomId) ==
  /\ Authed(c)
  /\ roomId \in FreeCodes
  /\ Commit(OnQuickMatch(c, timeControl, creatorIsWhite, roomId))
  /\ UNCHANGED <<connState, connSession, now>>

OnCancelQueue(c) == send(leaveQueue(World, connSession[c]), c, "queue_left", [empty |-> TRUE])

CancelQueueMsg(c) ==
  /\ Authed(c)
  /\ Commit(OnCancelQueue(c))
  /\ UNCHANGED <<connState, connSession, now>>

OnMove(c, san) ==
  LET r == makeMove(World, connSession[c], san)
  IN IF r.error # "" THEN send(r.w, c, "error", ErrorPayload(r.error)) ELSE r.w

MoveMsg(c, san) ==
  /\ Authed(c)
  /\ Commit(OnMove(c, san))
  /\ UNCHANGED <<connState, connSession, now>>

OnResign(c) == handleResign(World, connSession[c])

ResignMsg(c) ==
  /\ Authed(c)
  /\ Commit(OnResign(c))
  /\ UNCHANGED <<connState, connSession, now>>

(* No listener catches what a handler throws and the process has no uncaughtException
   handler: the exception ends the process, and with it every room, registry entry,
   queue, timer and connection, and no connection is accepted any more; what the
   database holds stays. *)
ProcessExit ==
  /\ connState' = [c \in Conns |-> "closed"]
  /\ rooms' = [code \in Codes |-> NoRoom]
  /\ sessionRooms' = [s \in Sessions |-> NoRoomId]
  /\ queues' = <<>>
  /\ timers' = {}
  /\ UNCHANGED <<connSession, dbGames, dbMoves, now>>

OnMoveAddMoveThrows(c, san) == makeMoveAddMoveThrows(World, connSession[c], san)

MoveMsgAddMoveThrows(c, san) ==
  /\ Authed(c)
  /\ addMoveCalled(World, connSession[c], san)
  /\ ProcessExit

OnResignEndGameThrows(c) == handleResignEndGameThrows(World, connSession[c])

ResignMsgEndGameThrows(c) ==
  /\ Authed(c)
  /\ endGameCalled(World, connSession[c])
  /\ ProcessExit

OnJoinRoomCreateGameThrows(c, roomId) ==
  joinRoomCreateGameThrows(World, c, connSession[c], Undefined, roomId)

JoinRoomMsgCreateGameThrows(c, roomId) ==
  /\ Authed(c)
  /\ joinCreateGameCalled(World, connSession[c], roomId)
  /\ ProcessExit

OnRematchRespondCreateGameThrows(c) ==
  handleRematchResponseCreateGameThrows(World, connSession[c])

RematchRespondMsgCreateGameThrows(c) ==
  /\ Authed(c)
  /\ RoomInStatus(World, connSession[c], "finished")
  /\ ProcessExit

OnDrawOffer(c) == handleDrawOffer(World, connSession[c])

DrawOfferMsg(c) ==
  /\ Authed(c)
  /\ Commit(OnDrawOffer(c))
  /\ UNCHANGED <<connState, connSession, now>>

OnDrawRespond(c, accept) == handleDrawResponse(World, connSession[c], accept)

DrawRespondMsg(c, accept) ==
  /\ Authed(c)
  /\ Commit(OnDrawRespond(c, accept))
  /\ UNCHANGED <<connState, connSession, now>>

OnRematchOffer(c) == handleRematchOffer(World, connSession[c])

RematchOfferMsg(c) ==
  /\ Authed(c)
  /\ Commit(OnRematchOffer(c))
  /\ UNCHANGED <<connState, connSession, now>>

OnRematchRespond(c, accept) == handleRematchResponse(World, connSession[c], accept)

RematchRespondMsg(c, accept) ==
  /\ Authed(c)
  /\ Commit(OnRematchRespond(c, accept))
  /\ UNCHANGED <<connState, connSession, now>>

\* ws.on('close'): the connection is no longer open when the handlers run
OnClose(c) ==
  LET w0 == [World EXCEPT !.open = @ \ {c}]
  IN IF connSession[c] # NoSession
       THEN leaveQueue(handleDisconnect(w0, connSession[c]), connSession[c])
       ELSE w0

Close(c) ==
  /\ connState[c] \in {"open", "closing"}
  /\ connState' = [connState EXCEPT ![c] = "closed"]
  /\ Commit(OnClose(c))
  /\ UNCHANGED <<connSession, now>>

\* The peer's close frame arrives, or the keepalive terminates the connection: its
\* readyState leaves OPEN, no frame reaches it and none comes from it any more; its
\* 'close' event, and with it the handlers of OnClose, runs in a later step.
Closing(c) ==
  /\ connState[c] = "open"
  /\ connState' = [connState EXCEPT ![c] = "closing"]
  /\ UNCHANGED <<connSession, rooms, sessionRooms, queues, timers, dbGames, dbMoves, now>>

OnDisconnectTimer(t) == disconnectTimerCallback([World EXCEPT !.timers = @ \ {t}], t)

DisconnectTimerFires(t) ==
  /\ t \in timers /\ t.kind = "disconnect" /\ t.deadline <= now
  /\ Commit(OnDisconnectTimer(t))
  /\ UNCHANGED <<connState, connSession, now>>

OnCleanupTimer(t) == cleanupRoom([World EXCEPT !.timers = @ \ {t}], t.room)

CleanupTimerFires(t) ==
  /\ t \in timers /\ t.kind = "cleanup" /\ t.deadline <= now
  /\ Commit(OnCleanupTimer(t))
  /\ UNCHANGED <<connState, connSession, now>>

\* time passes by one tick while a game is played, never past the deadline of a
\* pending timer
Tick ==
  /\ \E code \in Codes : rooms[code] # NoRoom /\ rooms[code].status = "playing"
  /\ now + TickMs <= (MaxTicks + 1) * TickMs
  /\ \A t \in timers : t.deadline >= now + TickMs
  /\ now' = now + TickMs
  /\ UNCHANGED <<connState, connSession, rooms, sessionRooms, queues, timers, dbGames, dbMoves>>

\* nothing happens until the next pending timer is due
Sleep ==
  /\ timers # {}
  /\ Min({t.deadline : t \in timers}) > now
  /\ now' = Min({t.deadline : t \in timers})
  /\ UNCHANGED <<connState, connSession, rooms, sessionRooms, queues, timers, dbGames, dbMoves>>

-------------------------------------------------------------------------------------------------------------------------------------------------
(* Specifications.  The bounds of a specification are guards on its        *)
(* disjuncts; the handlers themselves are unbounded.                       *)

Players == {"sA", "sB"}
\* the connections of the specifications that need no more than three
Conns3 == {"c1", "c2", "c3"}
TheCode == "ABCDEF"
TheTc == "2+1"

\* the first connection is sA's: the sessions are interchangeable
AuthChoice(c, s) == c = ConnOrder[1] => s = "sA"

GamesLeft == Len(dbGames) < MaxGames
\* a join_room that would start a game needs a game left; any other is free
JoinAllowed(id) ==
  rooms[toUpperCase(id)] # NoRoom /\ rooms[toUpperCase(id)].status = "waiting" => GamesLeft
MovesLeft == Cardinality(dbMoves) < MaxMoves
RematchesLeft == Len(dbGames) < 1 + MaxRematches

(* Spec: one room and two players on three connections: play with clocks,  *)
(* offers, disconnects and reconnects, timers and time.                     *)
Next ==
  \/ \E c \in Conns3 : Connect(c)
  \/ \E c \in Conns, s \in Players : AuthChoice(c, s) /\ Auth(c, s)
  \/ \E c \in Conns : GamesLeft /\ CreateRoomMsg(c, TheTc, TheCode)
  \/ \E c \in Conns : JoinAllowed(TheCode) /\ JoinRoomMsg(c, TheCode)
  \/ \E c \in Conns, san \in Sans : MovesLeft /\ MoveMsg(c, san)
  \/ \E c \in Conns : ResignMsg(c)
  \/ \E c \in Conns : DrawOfferMsg(c)
  \/ \E c \in Conns, accept \in BOOLEAN : DrawRespondMsg(c, accept)
  \/ \E c \in Conns : RematchOfferMsg(c)
  \/ \E c \in Conns : RematchRespondMsg(c, FALSE)
  \/ \E c \in Conns : Close(c)
  \/ \E t \in timers : DisconnectTimerFires(t)
  \/ \E t \in timers : CleanupTimerFires(t)
  \/ Tick
  \/ Sleep

Spec == Init /\ [][Next]_vars

(* SpecRematch: the same room through a rematch: games end by mate or by    *)
(* abandonment, and time passes only up to the next timer.                  *)
NextRematch ==
  \/ \E c \in Conns3 : Connect(c)
  \/ \E c \in Conns, s \in Players : AuthChoice(c, s) /\ Auth(c, s)
  \/ \E c \in Conns : GamesLeft /\ CreateRoomMsg(c, TheTc, TheCode)
  \/ \E c \in Conns : JoinAllowed(TheCode) /\ JoinRoomMsg(c, TheCode)
  \/ \E c \in Conns, san \in {"Nf3", "Qh5#"} : MovesLeft /\ MoveMsg(c, san)
  \/ \E c \in Conns : RematchOfferMsg(c)
  \/ \E c \in Conns, accept \in BOOLEAN : (accept => RematchesLeft) /\ RematchRespondMsg(c, accept)
  \/ \E c \in Conns : Close(c)
  \/ \E t \in timers : DisconnectTimerFires(t)
  \/ \E t \in timers : CleanupTimerFires(t)
  \/ Sleep

SpecRematch == Init /\ [][NextRematch]_vars

\* the types of the frames tried on a connection that is not bound
FrameTypes == {"auth", "move", "join_room"}

(* SpecSessions: the same room with a fourth connection, so that each of    *)
(* the two players can come back on a second connection; one quiet move.    *)
NextSessions ==
  \/ \E c \in Conns : Connect(c)
  \/ \E c \in Conns, s \in Players : AuthChoice(c, s) /\ Auth(c, s)
  \/ \E c \in Conns : GamesLeft /\ CreateRoomMsg(c, TheTc, TheCode)
  \/ \E c \in Conns : JoinAllowed(TheCode) /\ JoinRoomMsg(c, TheCode)
  \/ \E c \in Conns, type \in FrameTypes, s \in Players \cup {NoSession} :
       AuthChoice(c, s) /\ UnboundFrame(c, type, s)
  \/ \E c \in Conns : UnknownTypeMsg(c, "auth")
  \/ \E c \in Conns : dbMoves = {} /\ MoveMsg(c, "Nf3")
  \/ \E c \in Conns : Close(c)
  \/ \E t \in timers : DisconnectTimerFires(t)
  \/ \E t \in timers : CleanupTimerFires(t)
  \/ Sleep

SpecSessions == Init /\ [][NextSessions]_vars

(* SpecLobby: three sessions, two room codes and the matchmaker: rooms are  *)
(* created, joined (by ids in either letter case), matched and left; no    *)
(* move is made and no time passes.                                         *)
LobbyTags == {Undefined, "any", "1+0"}

NextLobby ==
  \/ \E c \in Conns3 : Connect(c)
  \/ \E c \in Conns, s \in Sessions : AuthChoice(c, s) /\ Auth(c, s)
  \/ \E c \in Conns, code \in Codes : CreateRoomMsg(c, "none", code)
  \/ \E c \in Conns, id \in RoomIds : JoinRoomMsg(c, id)
  \/ \E c \in Conns, tag \in LobbyTags, coin \in BOOLEAN, code \in Codes :
       QuickMatchMsg(c, tag, coin, code)
  \/ \E c \in Conns : CancelQueueMsg(c)
  \/ \E c \in Conns : Close(c)

SpecLobby == Init /\ [][NextLobby]_vars

(* SpecClosing: the matchmaker with connections that have left OPEN and whose close
   event has not run yet: their queue entries are dead. *)
NextClosing ==
  \/ \E c \in Conns3 : Connect(c)
  \/ \E c \in Conns, s \in Sessions : AuthChoice(c, s) /\ Auth(c, s)
  \/ \E c \in Conns, tag \in LobbyTags, coin \in BOOLEAN, code \in Codes :
       QuickMatchMsg(c, tag, coin, code)
  \/ \E c \in Conns : CancelQueueMsg(c)
  \/ \E c \in Conns : Closing(c)
  \/ \E c \in Conns : Close(c)

SpecClosing == Init /\ [][NextClosing]_vars

(* SpecJoin: three sessions and two rooms that are created, joined, played to their
   end by resignation and never cleaned up: join_room meets rooms of every status. *)
NextJoin ==
  \/ \E c \in Conns3 : Connect(c)
  \/ \E c \in Conns, s \in Sessions : AuthChoice(c, s) /\ Auth(c, s)
  \/ \E c \in Conns, code \in Codes : CreateRoomMsg(c, "none", code)
  \/ \E c \in Conns, id \in RoomIds : JoinRoomMsg(c, id)
  \/ \E c \in Conns : ResignMsg(c)
  \/ \E c \in Conns : Close(c)

SpecJoin == Init /\ [][NextJoin]_vars

(* SpecCleanup: two rooms and three sessions: a game ends by resignation, its players
   go on to create or join the other room, and the cleanup timer of the finished
   room fires after its five minutes. *)
NextCleanup ==
  \/ \E c \in Conns3 : Connect(c)
  \/ \E c \in Conns, s \in Sessions : AuthChoice(c, s) /\ Auth(c, s)
  \/ \E c \in Conns, code \in Codes : CreateRoomMsg(c, "none", code)
  \/ \E c \in Conns, code \in Codes : RematchesLeft /\ JoinRoomMsg(c, code)
  \/ \E c \in Conns : MovesLeft /\ MoveMsg(c, "Nf3")
  \/ \E c \in Conns : ResignMsg(c)
  \/ \E t \in timers : CleanupTimerFires(t)
  \/ Sleep

SpecCleanup == Init /\ [][NextCleanup]_vars

(* SpecStart: every way a game starts: a join of a created room, with and without
   clocks, a pairing by the matchmaker and an accepted rematch; games end by
   resignation or abandonment. *)
Conns2 == {"c1", "c2"}

NextStart ==
  \/ \E c \in Conns2 : Connect(c)
  \/ \E c \in Conns, s \in Players : AuthChoice(c, s) /\ Auth(c, s)
  \/ \E c \in Conns, tc \in {"none", TheTc} : RematchesLeft /\ CreateRoomMsg(c, tc, TheCode)
  \/ \E c \in Conns : RematchesLeft /\ JoinRoomMsg(c, TheCode)
  \/ \E c \in Conns, tag \in LobbyTags, coin \in BOOLEAN, code \in Codes :
       RematchesLeft /\ QuickMatchMsg(c, tag, coin, code)
  \/ \E c \in Conns : ResignMsg(c)
  \/ \E c \in Conns : RematchOfferMsg(c)
  \/ \E c \in Conns, accept \in BOOLEAN : (accept => RematchesLeft) /\ RematchRespondMsg(c, accept)
  \/ \E c \in Conns : Close(c)
  \/ \E t \in timers : DisconnectTimerFires(t)
  \/ \E t \in timers : CleanupTimerFires(t)
  \/ Sleep

SpecStart == Init /\ [][NextStart]_vars

(* SpecDbFail: the same room when a statement of the database can fail *)
NextDbFail ==
  \/ \E c \in Conns3 : Connect(c)
  \/ \E c \in Conns, s \in Players : AuthChoice(c, s) /\ Auth(c, s)
  \/ \E c \in Conns : GamesLeft /\ CreateRoomMsg(c, TheTc, TheCode)
  \/ \E c \in Conns : JoinAllowed(TheCode) /\ JoinRoomMsg(c, TheCode)
  \/ \E c \in Conns, san \in {"Nf3", "Qh5#"} : MovesLeft /\ MoveMsg(c, san)
  \/ \E c \in Conns, san \in {"Nf3", "Qh5#"} : MoveMsgAddMoveThrows(c, san)
  \/ \E c \in Conns : ResignMsg(c)
  \/ \E c \in Conns : ResignMsgEndGameThrows(c)
  \/ \E c \in Conns : JoinRoomMsgCreateGameThrows(c, TheCode)
  \/ \E c \in Conns : RematchRespondMsgCreateGameThrows(c)
  \/ \E c \in Conns : Close(c)
  \/ \E t \in timers : DisconnectTimerFires(t)
  \/ \E t \in timers : CleanupTimerFires(t)
  \/ Sleep

SpecDbFail == Init /\ [][NextDbFail]_vars

(* SpecDb: the query helpers of db.js called directly, as the REST routes and the rooms
   do, with move data of every ply and content on the stored games *)
DbMoveData ==
  [ply : 0..MaxPly, san : {"Nf3", "Qh5#"}, fen : {ChessFen(<<"Nf3">>)},
   timestamp : {TickMs}, side : {"white", "black"}]

DbCreateGame ==
  /\ Len(dbGames) < MaxDbGames
  /\ Commit(createGame(World, [timeControl |-> "none", white |-> "White", black |-> "Black"]))
  /\ UNCHANGED <<connState, connSession, now>>

\* game_id REFERENCES games(id) with foreign_keys = ON: the game is a stored one
DbAddMove(gameId, moveData) ==
  /\ gameId \in 1..Len(dbGames)
  /\ Commit(addMove(World, gameId, moveData))
  /\ UNCHANGED <<connState, connSession, now>>

NextDb ==
  \/ DbCreateGame
  \/ \E gameId \in 1..MaxDbGames, moveData \in DbMoveData : DbAddMove(gameId, moveData)

SpecDb == Init /\ [][NextDb]_vars

-------------------------------------------------------------------------------------------------------------------------------------------------
(* Properties *)

LiveCodes == {code \in Codes : rooms[code] # NoRoom}
\* s is the session of the white or the black slot of the live room at code
IsSlotOf(s, code) == rooms[code] # NoRoom /\ getPlayerSide(rooms[code], s) # NoSide
\* the frames of type `type` that the handler's world w wrote to connection c
FramesTo(w, c, type) == {i \in 1..Len(w.sent) : w.sent[i].to = c /\ w.sent[i].type = type}

\* C1 (SpecLobby): for every session s and every live room r, the registry maps s to
\* r's code if and only if s is the session of r's white or black slot.
C1_RegistryIffSlot ==
  \A s \in Sessions, code \in LiveCodes : sessionRooms[s] = code <=> IsSlotOf(s, code)

\* C2 (Spec): in every room the length of the move log equals the number of plies
\* applied to the room's rule engine, also after a move that ends the game on time.
C2_LogLengthIsPlyCount ==
  \A code \in LiveCodes : Len(rooms[code].moves) = ChessPlies(rooms[code].chess)

\* C3 (SpecLobby): no session is at the same time an entry of a matchmaking queue and
\* the session of a slot of a live room, whatever the room's status.
C3_NeverQueuedAndSeated ==
  \A s \in Sessions : ~(InQueue(queues, s) /\ \E code \in Codes : IsSlotOf(s, code))

\* C4 (SpecSessions): when a session holds two open connections, the close of the one
\* that authenticated first leaves the session's seat alone: the room stays, the slot
\* keeps its connected flag and its connection, no opponent_disconnected frame is
\* written and no disconnect-grace timer is armed.
C4_OlderCloseKeepsSeat ==
  \A c \in Conns, d \in Conns :
    (Authed(c) /\ Authed(d) /\ connSession[c] = connSession[d] /\ ConnRank(c) < ConnRank(d)) =>
      LET w == OnClose(c)
          s == connSession[c]
      IN /\ \A code \in Codes :
              IsSlotOf(s, code) =>
                /\ w.rooms[code] # NoRoom
                /\ getPlayerBySide(w.rooms[code], getPlayerSide(rooms[code], s))
                     = getPlayerBySide(rooms[code], getPlayerSide(rooms[code], s))
         /\ \A i \in 1..Len(w.sent) : w.sent[i].type # "opponent_disconnected"
         /\ {t \in w.timers : t.kind = "disconnect"} \subseteq timers

\* every room that is finished now is still there, and finished, in the world w
StaysFinished(w) ==
  \A code \in LiveCodes :
    rooms[code].status = "finished" =>
      w.rooms[code] # NoRoom /\ w.rooms[code].status = "finished"
\* every call of finishGame the handler made found its room playing
FinishedOnlyPlaying(w) == \A i \in 1..Len(w.fin) : w.fin[i].was = "playing"
OneShot(w) == StaysFinished(w) /\ FinishedOnlyPlaying(w)

\* C5 (SpecRematch): finalization is one-shot.  In every reachable state, whichever
\* event comes next (move, resign, draw_offer, draw_respond, rematch_offer, declined
\* rematch_respond, join_room, auth, connection close, a due disconnect-grace timer),
\* a finished room keeps its status and finishGame runs only on a playing room; an
\* accepted rematch_respond never runs finishGame either.
C5_FinalizationOneShot ==
  /\ \A c \in Conns :
       Authed(c) =>
         /\ \A san \in Sans : OneShot(OnMove(c, san))
         /\ OneShot(OnResign(c))
         /\ OneShot(OnDrawOffer(c))
         /\ \A accept \in BOOLEAN : OneShot(OnDrawRespond(c, accept))
         /\ OneShot(OnRematchOffer(c))
         /\ OneShot(OnRematchRespond(c, FALSE))
         /\ FinishedOnlyPlaying(OnRematchRespond(c, TRUE))
         /\ \A id \in RoomIds : OneShot(OnJoinRoom(c, id))
  /\ \A c \in Conns :
       (connState[c] = "open" /\ connSession[c] = NoSession) =>
         \A s \in Sessions : OneShot(OnAuth(c, s))
  /\ \A c \in Conns : connState[c] = "open" => OneShot(OnClose(c))
  /\ \A t \in timers :
       (t.kind = "disconnect" /\ t.deadline <= now) => OneShot(OnDisconnectTimer(t))

\* a game that ended by checkmate and a grace timer of its room that has fired
\* since: the room is still finished
C5_Witness ==
  \E code \in LiveCodes :
    /\ rooms[code].status = "finished"
    /\ dbGames[rooms[code].dbGameId].result_reason = "checkmate"
    /\ rooms[code].disconnectTimer # 0
    /\ \A t \in timers : t.id # rooms[code].disconnectTimer
    /\ \E side \in {"w", "b"} : ~getPlayerBySide(rooms[code], side).connected

\* session s has no open connection
Absent(s) == \A c \in Conns : connState[c] = "open" => connSession[c] # s

\* C6 (Spec): a player whose connection closed while the room is playing and who has
\* not come back is given 60 s: time does not pass the end of the grace period with
\* the room still playing, and the grace timer that is due then finalizes the room
\* as abandoned with the absent player losing and game_end sent to the opponent.
C6_AbandonedAfterGrace ==
  /\ \A code \in LiveCodes, side \in {"w", "b"} :
       LET room == rooms[code]
           p == getPlayerBySide(room, side)
       IN (room.status = "playing" /\ ~p.connected /\ p.disconnectedAt # NoTime
             /\ Absent(p.sessionId))
            => now <= p.disconnectedAt + DISCONNECT_GRACE_PERIOD
  /\ \A t \in timers :
       (/\ t.kind = "disconnect" /\ t.deadline <= now
        /\ rooms[t.room].status = "playing"
        /\ ~getPlayerBySide(rooms[t.room], t.side).connected) =>
         LET w == OnDisconnectTimer(t)
             opponent == getPlayerBySide(rooms[t.room], Other(t.side))
         IN /\ w.rooms[t.room].status = "finished"
            /\ w.fin = <<[room |-> t.room, was |-> "playing",
                          result |-> IF t.side = "w" THEN "0-1" ELSE "1-0",
                          reason |-> "abandoned"]>>
            /\ opponent.ws \in w.open => FramesTo(w, opponent.ws, "game_end") # {}

\* C7 (SpecSessions): when a session that the registry seats in a playing room
\* authenticates on a new connection, that connection gets one reconnect frame with
\* the session's current colour, the SANs of the whole move log in order and the
\* position after the last logged move; the slot is connected on the new connection
\* and the opponent, if it holds an open connection, gets opponent_reconnected.
C7_ReconnectFrame ==
  \A c \in Conns, s \in Sessions :
    LET room == getRoomForSession(World, s)
    IN (/\ connState[c] = "open" /\ connSession[c] = NoSession
        /\ room # NoRoom /\ room.status = "playing") =>
         LET w == OnAuth(c, s)
             side == getPlayerSide(room, s)
             opponent == getPlayerBySide(room, Other(side))
             frames == FramesTo(w, c, "reconnect")
         IN /\ side # NoSide
            /\ Cardinality(frames) = 1
            /\ \A i \in frames :
                 /\ w.sent[i].payload.color = side
                 /\ w.sent[i].payload.moves = [k \in 1..Len(room.moves) |-> room.moves[k].san]
                 /\ w.sent[i].payload.fen = IF room.moves = <<>> THEN ChessFen(NewChess)
                                            ELSE room.moves[Len(room.moves)].fen
            /\ getPlayerBySide(w.rooms[room.id], side).connected
            /\ getPlayerBySide(w.rooms[room.id], side).ws = c
            /\ ~Absent(opponent.sessionId) =>
                 \E d \in w.open : /\ connSession[d] = opponent.sessionId
                                   /\ FramesTo(w, d, "opponent_reconnected") # {}

\* C8 (SpecRematch): an accepted rematch_respond on a finished room puts the room
\* back in playing with the colours swapped, a fresh engine, an empty move log, both
\* clocks at the initial time of the unchanged time control with lastMoveAt set, and
\* a game id newly obtained from createGame that differs from the previous one; each
\* of the two players that holds an open connection is sent rematch_start with its
\* new colour.
C8_AcceptedRematch ==
  \A c \in Conns :
    LET room == getRoomForSession(World, connSession[c])
    IN (Authed(c) /\ room # NoRoom /\ room.status = "finished") =>
         LET w == OnRematchRespond(c, TRUE)
             after == w.rooms[room.id]
             tc == parseTimeControl(room.timeControl)
         IN /\ after.status = "playing"
            /\ after.white.sessionId = room.black.sessionId
            /\ after.black.sessionId = room.white.sessionId
            /\ after.chess = NewChess
            /\ after.moves = <<>>
            /\ after.timeControl = room.timeControl
            /\ tc # NoTc =>
                 /\ after.clocks.w = tc.minutes * 60 * 1000
                 /\ after.clocks.b = tc.minutes * 60 * 1000
                 /\ after.clocks.lastMoveAt = now
            /\ Len(w.dbGames) = Len(dbGames) + 1
            /\ after.dbGameId = Len(w.dbGames)
            /\ after.dbGameId # room.dbGameId
            /\ \A side \in {"w", "b"} :
                 ~Absent(getPlayerBySide(after, side).sessionId) =>
                   \E d \in w.open :
                     /\ connSession[d] = getPlayerBySide(after, side).sessionId
                     /\ \E i \in FramesTo(w, d, "rematch_start") : w.sent[i].payload.color = side

\* C9 (Spec): a move that fails a check of the pipeline (sender not in the registry:
\* "Not in a room"; room missing or not playing: "Game not in progress"; sender not
\* the side to move: "Not your turn"; SAN rejected by the engine: "Invalid move",
\* tried in that order) writes exactly one frame, the error to the sender, and leaves
\* rooms, timers and the persistence store unchanged; a move that passes them all
\* gets no error.
C9_MoveErrors ==
  \A c \in Conns, san \in Sans :
    Authed(c) =>
      LET s == connSession[c]
          room == getRoomForSession(World, s)
          expected ==
            IF sessionRooms[s] = NoRoomId THEN "Not in a room"
            ELSE IF room = NoRoom \/ room.status # "playing" THEN "Game not in progress"
            ELSE IF getPlayerSide(room, s) # ChessTurn(room.chess) THEN "Not your turn"
            ELSE IF ~ChessCanMove(room.chess, san) THEN "Invalid move"
            ELSE ""
          w == OnMove(c, san)
      IN IF expected # ""
           THEN /\ w.sent = <<[to |-> c, type |-> "error", payload |-> ErrorPayload(expected)]>>
                /\ w.rooms = rooms
                /\ w.timers = timers
                /\ w.dbGames = dbGames
                /\ w.dbMoves = dbMoves
           ELSE FramesTo(w, c, "error") = {}

\* a game with a move made, in which one player's move would be out of turn and
\* the other's SAN would be rejected
C9_Witness ==
  \E c \in Conns, d \in Conns :
    /\ Authed(c) /\ Authed(d)
    /\ getRoomForSession(World, connSession[c]) # NoRoom
    /\ Len(getRoomForSession(World, connSession[c]).moves) > 0
    /\ OnMove(c, "Nf3").sent = <<[to |-> c, type |-> "error",
                                  payload |-> ErrorPayload("Not your turn")]>>
    /\ OnMove(d, "Zz9").sent = <<[to |-> d, type |-> "error",
                                  payload |-> ErrorPayload("Invalid move")]>>

\* C10 (Spec): in a clocked room an accepted first move of a game changes neither
\* clock; an accepted later move is made with elapsed = now - lastMoveAt below the
\* mover's clock and sets it to clock - elapsed + increment, the opponent's clock
\* staying as it was; every accepted move sets lastMoveAt to now.
C10_ClockArithmetic ==
  \A c \in Conns, san \in Sans :
    LET room == getRoomForSession(World, connSession[c])
    IN (Authed(c) /\ room # NoRoom /\ room.clocks # NoClocks) =>
         LET w == OnMove(c, san)
             after == w.rooms[room.id]
             mover == ChessTurn(room.chess)
             elapsed == now - room.clocks.lastMoveAt
         IN Len(after.moves) = Len(room.moves) + 1 =>
              /\ after.clocks.lastMoveAt = now
              /\ after.clocks[Other(mover)] = room.clocks[Other(mover)]
              /\ IF Len(room.moves) = 0
                   THEN after.clocks[mover] = room.clocks[mover]
                   ELSE /\ elapsed < room.clocks[mover]
                        /\ after.clocks[mover]
                             = room.clocks[mover] - elapsed + room.clocks.increment

\* black answered one tick after white's first move: white's clock is untouched,
\* black's is charged the tick and credited the increment
C10_Witness ==
  \E code \in LiveCodes :
    LET room == rooms[code]
    IN /\ room.clocks # NoClocks /\ Len(room.moves) = 2
       /\ room.moves[2].timestamp > room.moves[1].timestamp
       /\ room.clocks.w = parseTimeControl(room.timeControl).minutes * 60 * 1000
       /\ room.clocks.b = room.clocks.w - (room.moves[2].timestamp - room.moves[1].timestamp)
                            + room.clocks.increment
       /\ room.clocks.lastMoveAt = room.moves[2].timestamp

\* the player seated at `side` of `room` holds an open connection, and one of its
\* open connections was written a frame of type `type` by the handler's world w
Receives(w, room, side, type) ==
  ~Absent(getPlayerBySide(room, side).sessionId) =>
    \E d \in w.open : /\ connSession[d] = getPlayerBySide(room, side).sessionId
                      /\ FramesTo(w, d, type) # {}

\* C11 (Spec): in a clocked room a legal move, not the first of the game, that arrives
\* with elapsed >= the mover's clock sets the mover's clock to 0 and finalizes the room
\* with reason timeout and the mover losing; both players receive game_end, no
\* increment is credited, and the move is not logged, persisted or broadcast.
C11_TimeoutMove ==
  \A c \in Conns, san \in LegalSans :
    LET room == getRoomForSession(World, connSession[c])
        mover == ChessTurn(room.chess)
    IN (/\ Authed(c) /\ room # NoRoom /\ room.status = "playing"
        /\ room.clocks # NoClocks /\ Len(room.moves) > 0
        /\ getPlayerSide(room, connSession[c]) = mover
        /\ ChessCanMove(room.chess, san)
        /\ now - room.clocks.lastMoveAt >= room.clocks[mover]) =>
         LET w == OnMove(c, san)
             after == w.rooms[room.id]
         IN /\ after.clocks[mover] = 0
            /\ after.clocks[Other(mover)] = room.clocks[Other(mover)]
            /\ after.status = "finished"
            /\ w.fin = <<[room |-> room.id, was |-> "playing",
                          result |-> IF mover = "b" THEN "1-0" ELSE "0-1",
                          reason |-> "timeout"]>>
            /\ w.dbGames[room.dbGameId].result_reason = "timeout"
            /\ after.moves = room.moves
            /\ w.dbMoves = dbMoves
            /\ \A i \in 1..Len(w.sent) : w.sent[i].type \notin {"move", "move_ack"}
            /\ \A side \in {"w", "b"} : Receives(w, room, side, "game_end")

\* the number of moves `side` has made in the current game of `room`
MovesMade(room, side) == Cardinality({i \in 1..Len(room.moves) : room.moves[i].side = side})
\* value is a clock of `side` within the limits: 0 and initial time + moves * increment
ClockInRange(room, side, value) ==
  /\ value >= 0
  /\ value <= parseTimeControl(room.timeControl).minutes * 60 * 1000
                + MovesMade(room, side) * room.clocks.increment
\* every frame of one of the types that w wrote carries clocks of `room` within the limits
FrameClocksInRange(w, room, types) ==
  \A i \in 1..Len(w.sent) :
    (w.sent[i].type \in types /\ w.sent[i].payload.clocks # NoClocks) =>
      \A side \in {"w", "b"} : ClockInRange(room, side, w.sent[i].payload.clocks[side])

\* C12 (Spec): each side's clock is at least 0 and at most the initial time plus the
\* side's number of moves in the current game times the increment: in the room in
\* every reachable state, and in every move, move_ack and reconnect frame a handler
\* writes.
C12_ClocksInRange ==
  /\ \A code \in LiveCodes, side \in {"w", "b"} :
       rooms[code].clocks # NoClocks =>
         ClockInRange(rooms[code], side, rooms[code].clocks[side])
  /\ \A c \in Conns, san \in Sans :
       LET room == getRoomForSession(World, connSession[c])
           w == OnMove(c, san)
       IN (Authed(c) /\ room # NoRoom) =>
            FrameClocksInRange(w, w.rooms[room.id], {"move", "move_ack"})
  /\ \A c \in Conns, id \in RoomIds :
       (Authed(c) /\ rooms[toUpperCase(id)] # NoRoom) =>
         FrameClocksInRange(OnJoinRoom(c, id), rooms[toUpperCase(id)], {"reconnect"})
  /\ \A c \in Conns, s \in Sessions :
       (connState[c] = "open" /\ connSession[c] = NoSession
          /\ getRoomForSession(World, s) # NoRoom) =>
         FrameClocksInRange(OnAuth(c, s), getRoomForSession(World, s), {"reconnect"})

\* a game in which the side to move has let more time pass than its clock holds (the
\* reconnect frame shows 0) while the other side's clock stands above the initial time
C12_Witness ==
  \E code \in LiveCodes :
    LET room == rooms[code]
        mover == ChessTurn(room.chess)
    IN /\ room.status = "playing" /\ room.clocks # NoClocks
       /\ now - room.clocks.lastMoveAt >= room.clocks[mover]
       /\ room.clocks[Other(mover)] > parseTimeControl(room.timeControl).minutes * 60 * 1000
       /\ \E c \in Conns : Authed(c) /\ FramesTo(OnJoinRoom(c, code), c, "reconnect") # {}

\* the tag of the queue that holds an entry of session s
QueueTagOf(qs, s) ==
  qs[CHOOSE i \in 1..Len(qs) : \E j \in 1..Len(qs[i].q) : qs[i].q[j].sessionId = s].tc

\* C13 (SpecLobby): a room the matchmaker creates has the caller's tag as its time
\* control when that tag is specific, the tag of the opponent's queue when the caller's
\* tag is "any" and that queue is specific, and "5+0" when both are "any"; no room,
\* matched or created by create_room, has the time control "any".
C13_MatchTimeControl ==
  /\ \A c \in Conns, tag \in LobbyTags, coin \in BOOLEAN, code \in FreeCodes :
       LET w == OnQuickMatch(c, tag, coin, code)
           room == w.rooms[code]
           callerTag == IF tag = Undefined THEN "5+0" ELSE tag
           opponent == IF room.white.sessionId = connSession[c]
                         THEN room.black.sessionId ELSE room.white.sessionId
           opponentTag == QueueTagOf(queues, opponent)
       IN (Authed(c) /\ room # NoRoom) =>
            /\ InQueue(queues, opponent)
            /\ room.timeControl = IF callerTag # "any" THEN callerTag
                                  ELSE IF opponentTag # "any" THEN opponentTag
                                  ELSE "5+0"
  /\ \A c \in Conns, code \in FreeCodes :
       Authed(c) => OnCreateRoom(c, "any", code).rooms[code].timeControl # "any"
  /\ \A code \in LiveCodes : rooms[code].timeControl # "any"

\* a live entry waits in the "any" queue and no queue has the tag "1+0": a caller
\* with the tag "1+0" would be paired with that entry in a room of time control "1+0"
C13_Witness ==
  \E c \in Conns, code \in FreeCodes :
    /\ Authed(c)
    /\ QueueIndex(queues, "any") # 0
    /\ QueueIndex(queues, "1+0") = 0
    /\ OnQuickMatch(c, "1+0", TRUE, code).rooms[code] # NoRoom
    /\ OnQuickMatch(c, "1+0", TRUE, code).rooms[code].timeControl = "1+0"

\* C14 (SpecSessions): on a connection that is not bound, every frame that is not
\* auth with a non-empty sessionId writes only the error "First message must be auth
\* with sessionId" and changes no room, queue, registry entry, timer or stored game,
\* and the connection stays open and unbound; a bound connection's session never
\* changes, and a later auth frame on it is answered as an unknown type.
C14_HandshakeGate ==
  [][/\ \A c \in Conns, type \in FrameTypes, s \in Sessions \cup {NoSession} :
          (/\ connState[c] = "open" /\ connSession[c] = NoSession
           /\ (type # "auth" \/ s = NoSession)) =>
            LET w == OnUnboundFrame(c, type, s)
            IN /\ w.sent = <<[to |-> c, type |-> "error",
                              payload |-> ErrorPayload("First message must be auth with sessionId")]>>
               /\ w.rooms = rooms /\ w.sessionRooms = sessionRooms /\ w.queues = queues
               /\ w.timers = timers /\ w.dbGames = dbGames /\ w.dbMoves = dbMoves
               /\ GateSession(type, s) = NoSession
               /\ UnboundFrame(c, type, s) => connState'[c] = "open"
     /\ \A c \in Conns :
          Authed(c) =>
            /\ connSession'[c] = connSession[c]
            /\ FramesTo(OnUnknownType(c, "auth"), c, "auth_ok") = {}
            /\ OnUnknownType(c, "auth").sessionRooms = sessionRooms
            /\ OnUnknownType(c, "auth").rooms = rooms]_vars

\* one connection is bound and seated in a room while another is open and not bound
C14_Witness ==
  \E c \in Conns, d \in Conns :
    /\ Authed(c) /\ getRoomForSession(World, connSession[c]) # NoRoom
    /\ connState[d] = "open" /\ connSession[d] = NoSession

\* the stored moves of a (game id, ply)
MovesAt(moves, gameId, ply) == {r \in moves : r.game_id = gameId /\ r.ply = ply}

\* C15 (SpecDb): addMove is idempotent on (game id, ply) for a stored game: there is
\* never more than one stored move for a (game id, ply); a call for a (game id, ply)
\* that has no stored move stores the call's data and reports an insertion; a call
\* for one that has a stored move changes no stored move and reports no insertion,
\* so the stored move keeps the first call's data whatever the later calls carry.
C15_AddMoveIdempotent ==
  [][\A gameId \in 1..Len(dbGames), ply \in 0..MaxPly :
       LET before == MovesAt(dbMoves, gameId, ply)
       IN /\ Cardinality(MovesAt(dbMoves', gameId, ply)) <= 1
          /\ before # {} => MovesAt(dbMoves', gameId, ply) = before
          /\ \A moveData \in DbMoveData :
               moveData.ply = ply =>
                 LET w == addMove(World, gameId, moveData)
                 IN /\ Cardinality(MovesAt(w.dbMoves, gameId, ply)) = 1
                    /\ before # {} =>
                         /\ w.dbMoves = dbMoves
                         /\ ~addMoveInserted(World, gameId, moveData)
                    /\ before = {} =>
                         /\ w.dbMoves = dbMoves \cup {MoveRow(gameId, moveData)}
                         /\ addMoveInserted(World, gameId, moveData)]_vars

\* two games each hold a move at ply 0, with different data, and one holds a move at
\* ply 1 as well
C15_Witness ==
  /\ Len(dbGames) = 2
  /\ \E r1 \in MovesAt(dbMoves, 1, 0), r2 \in MovesAt(dbMoves, 2, 0) : r1.san # r2.san
  /\ MovesAt(dbMoves, 1, 1) # {}

\* C16 (SpecLobby): join_room is case-insensitive in the room code: for a waiting room
\* whose creator is another session, a join_room with any spelling of the room's code
\* changes the rooms exactly as the upper-case code does, makes the room playing with
\* the sender as black, and maps the sender's session to the room in the registry, so
\* that the sender's move is then routed to the room (and refused only because it is
\* white's turn).
C16_JoinCaseInsensitive ==
  \A c \in Conns, roomId \in RoomIds :
    LET code == toUpperCase(roomId)
        s == connSession[c]
        w == OnJoinRoom(c, roomId)
        u == OnJoinRoom(c, code)
    IN (/\ Authed(c) /\ rooms[code] # NoRoom /\ rooms[code].status = "waiting"
        /\ rooms[code].white.sessionId # s) =>
         /\ w.rooms = u.rooms
         /\ w.rooms[code].status = "playing"
         /\ w.rooms[code].black # NoSlot /\ w.rooms[code].black.sessionId = s
         /\ getRoomForSession(w, s) = w.rooms[code]
         /\ moveError(w, s, "Nf3") = "Not your turn"

\* C17 (SpecStart): whenever a room is playing, both of its slots are occupied, its
\* database game id is that of a stored game, and if it has clocks their lastMoveAt
\* is set (a room without clocks has no lastMoveAt at all); the rooms are started by
\* a join, by a pairing of the matchmaker and by an accepted rematch.
C17_PlayingRoomShape ==
  \A code \in Codes :
    (rooms[code] # NoRoom /\ rooms[code].status = "playing") =>
      /\ rooms[code].white # NoSlot
      /\ rooms[code].black # NoSlot
      /\ rooms[code].dbGameId \in 1..Len(dbGames)
      /\ rooms[code].clocks # NoClocks => rooms[code].clocks.lastMoveAt # NoTime

\* a room that the matchmaker paired at 1+0 is playing its second game, after an
\* accepted rematch
C17_Witness ==
  \E code \in Codes :
    /\ rooms[code] # NoRoom /\ rooms[code].status = "playing"
    /\ rooms[code].timeControl = "1+0" /\ rooms[code].clocks # NoClocks
    /\ rooms[code].dbGameId = 2 /\ dbGames[1].time_control = "1+0"

\* the finished rooms of the world w each have their cleanup timer pending
CleanupArmed(w) ==
  \A code \in Codes :
    (w.rooms[code] # NoRoom /\ w.rooms[code].status = "finished") =>
      \E t \in w.timers : /\ t.id = w.rooms[code].cleanupTimer /\ t.kind = "cleanup"
                          /\ t.room = code
\* every room that is finished now and still finished in the world w has the same
\* move log and position there, and the finished rooms of w have their timer
Frozen(w) ==
  /\ CleanupArmed(w)
  /\ \A code \in LiveCodes :
       (/\ rooms[code].status = "finished"
        /\ w.rooms[code] # NoRoom /\ w.rooms[code].status = "finished") =>
         /\ w.rooms[code].moves = rooms[code].moves
         /\ w.rooms[code].chess = rooms[code].chess

\* C18 (SpecRematch): whenever a room is finished its cleanup timer is pending, and
\* whichever event comes next (any frame of a bound connection, auth, connection
\* close, a due timer), the room's move log and position are the same after it unless
\* the event was an accepted rematch (the room is playing) or the cleanup (the room
\* is gone); the rooms the event finished have their cleanup timer pending too.
C18_FinishedFrozen ==
  /\ CleanupArmed(World)
  /\ \A c \in Conns :
       Authed(c) =>
         /\ \A san \in Sans : Frozen(OnMove(c, san))
         /\ Frozen(OnResign(c))
         /\ Frozen(OnDrawOffer(c))
         /\ \A accept \in BOOLEAN : Frozen(OnDrawRespond(c, accept))
         /\ Frozen(OnRematchOffer(c))
         /\ \A accept \in BOOLEAN : Frozen(OnRematchRespond(c, accept))
         /\ \A id \in RoomIds : Frozen(OnJoinRoom(c, id))
         /\ \A code \in FreeCodes : Frozen(OnCreateRoom(c, TheTc, code))
         /\ \A code \in FreeCodes, tag \in LobbyTags, coin \in BOOLEAN :
              Frozen(OnQuickMatch(c, tag, coin, code))
         /\ Frozen(OnCancelQueue(c))
  /\ \A c \in Conns :
       (connState[c] = "open" /\ connSession[c] = NoSession) =>
         \A s \in Sessions : Frozen(OnAuth(c, s))
  /\ \A c \in Conns : connState[c] = "open" => Frozen(OnClose(c))
  /\ \A t \in timers :
       t.deadline <= now =>
         /\ t.kind = "disconnect" => Frozen(OnDisconnectTimer(t))
         /\ t.kind = "cleanup" => Frozen(OnCleanupTimer(t))

\* a finished room with a logged move on which a rematch has been offered since
C18_Witness ==
  \E code \in LiveCodes :
    /\ rooms[code].status = "finished"
    /\ rooms[code].moves # <<>>
    /\ rooms[code].rematchOfferedBy # NoSide

\* C19 (SpecRematch): a draw by agreement needs an offer.  No draw_offer frame is ever
\* sent in SpecRematch, so in each of its states no player has an offer of the opponent
\* to accept: a draw_respond with accept = true from a player of a playing room does
\* not end the game (finishGame does not run and the room is still playing).
C19_DrawNeedsOffer ==
  \A c \in Conns :
    (Authed(c) /\ RoomInStatus(World, connSession[c], "playing")) =>
      LET w == OnDrawRespond(c, TRUE)
      IN /\ w.fin = <<>>
         /\ w.rooms[sessionRooms[connSession[c]]].status = "playing"

\* what the players and the room see is the same in the worlds f and ok
SameLiveFlow(f, ok) ==
  /\ f.rooms = ok.rooms /\ f.sent = ok.sent /\ f.timers = ok.timers
  /\ f.sessionRooms = ok.sessionRooms

\* C20 (SpecDbFail): a persistence failure does not block the live game flow: when
\* addMove fails for an accepted move, the handler leaves the room, the frames sent
\* (move to the opponent, move_ack to the mover, game_end after a final move) and the
\* timers as it does when addMove succeeds; when endGame fails in the finalization of
\* a resignation, the room is finished, game_end is sent and the cleanup timer armed
\* as when it succeeds.
C20_PersistenceFailureTolerated ==
  \A c \in Conns :
    Authed(c) =>
      /\ \A san \in Sans :
           addMoveCalled(World, connSession[c], san) =>
             SameLiveFlow(OnMoveAddMoveThrows(c, san), OnMove(c, san))
      /\ endGameCalled(World, connSession[c]) =>
           SameLiveFlow(OnResignEndGameThrows(c), OnResign(c))

\* C21 (SpecDbFail): a failed createGame leaves the room as it was before the event:
\* when it fails in a join_room that would start the game, the rooms (the room still
\* waiting with only the creator seated) and the registry (no entry for the joiner)
\* are unchanged; when it fails in an accepted rematch, the rooms (still finished,
\* same colours and move log) and the timers (the cleanup timer) are unchanged.
C21_FailedCreateGameRollsBack ==
  \A c \in Conns :
    Authed(c) =>
      /\ \A roomId \in RoomIds :
           joinCreateGameCalled(World, connSession[c], roomId) =>
             /\ OnJoinRoomCreateGameThrows(c, roomId).rooms = rooms
             /\ OnJoinRoomCreateGameThrows(c, roomId).sessionRooms = sessionRooms
      /\ RoomInStatus(World, connSession[c], "finished") =>
           /\ OnRematchRespondCreateGameThrows(c).rooms = rooms
           /\ OnRematchRespondCreateGameThrows(c).timers = timers

\* C22 (Spec): whenever a room is playing and the slot of one of its players is marked
\* disconnected, a disconnect-grace timer of the room is pending whose player is
\* marked disconnected (when it fires it finalizes the room against that player).
C22_GraceTimerArmed ==
  \A code \in LiveCodes, side \in {"w", "b"} :
    (/\ rooms[code].status = "playing"
     /\ ~getPlayerBySide(rooms[code], side).connected) =>
      \E t \in timers :
        /\ t.kind = "disconnect" /\ t.room = code
        /\ ~getPlayerBySide(rooms[code], t.side).connected

\* C23 (SpecRematch): a room is finalized as abandoned against a player only after the
\* player's slot has been disconnected for the whole grace period, all of it in the
\* current game: whenever the callback of a due grace timer (armed 60 s ago or more)
\* finalizes its room, the slot of the timer's side is marked disconnected and was
\* marked so by a disconnect in the current game (the slots of a game are new objects,
\* without disconnectedAt until a disconnect in that game sets it).
C23_AbandonedOnlyAfterGrace ==
  \A t \in timers :
    (/\ t.kind = "disconnect" /\ t.deadline <= now
     /\ OnDisconnectTimer(t).fin # <<>>) =>
      LET p == getPlayerBySide(rooms[t.room], t.side)
      IN /\ ~p.connected
         /\ p.disconnectedAt # NoTime

\* the rooms that finishGame finalized in the world w have no grace timer pending
NoGraceTimerAfterFinish(w) ==
  \A i \in 1..Len(w.fin) :
    \A t \in w.timers : ~(t.kind = "disconnect" /\ t.room = w.fin[i].room)

\* C24 (Spec): disconnect timers are cancelled on finalization: whichever event
\* finalizes a room (a move that mates, stalemates or falls on the flag, a resign, an
\* accepted draw, a due grace timer), no disconnect-grace timer of the room is pending
\* when its handler is done.
C24_FinishCancelsGraceTimer ==
  /\ \A c \in Conns :
       Authed(c) =>
         /\ \A san \in Sans : NoGraceTimerAfterFinish(OnMove(c, san))
         /\ NoGraceTimerAfterFinish(OnResign(c))
         /\ NoGraceTimerAfterFinish(OnDrawRespond(c, TRUE))
  /\ \A t \in timers :
       (t.kind = "disconnect" /\ t.deadline <= now) =>
         NoGraceTimerAfterFinish(OnDisconnectTimer(t))

\* C25 (SpecRematch): the close of a connection of a player seated in a finished room
\* does no timer work: the pending timers after it are those before it (no grace
\* timer is armed, the cleanup timer is as it was).
C25_CloseInFinishedRoom ==
  \A c \in Conns :
    (/\ Authed(c)
     /\ RoomInStatus(World, connSession[c], "finished")
     /\ getPlayerSide(rooms[sessionRooms[connSession[c]]], connSession[c]) # NoSide) =>
      OnClose(c).timers = timers

\* every room that is playing now is still in the room map of the world w
PlayingRoomsKept(w) ==
  \A code \in LiveCodes : rooms[code].status = "playing" => w.rooms[code] # NoRoom

\* C26 (SpecRematch): every pending cleanup timer is the one its room holds, and the
\* room is finished: no cleanup timer of an earlier game is pending (and so none
\* fires) while the room plays a later game, and a room has at most one pending
\* cleanup timer; whichever event comes next, no playing room is removed by it.
C26_RematchCancelsCleanup ==
  /\ \A t \in timers :
       t.kind = "cleanup" =>
         /\ rooms[t.room] # NoRoom /\ rooms[t.room].status = "finished"
         /\ rooms[t.room].cleanupTimer = t.id
  /\ \A code \in Codes :
       Cardinality({t \in timers : t.kind = "cleanup" /\ t.room = code}) <= 1
  /\ \A c \in Conns :
       Authed(c) =>
         /\ \A san \in Sans : PlayingRoomsKept(OnMove(c, san))
         /\ PlayingRoomsKept(OnResign(c))
         /\ \A accept \in BOOLEAN :
              /\ PlayingRoomsKept(OnDrawRespond(c, accept))
              /\ PlayingRoomsKept(OnRematchRespond(c, accept))
         /\ PlayingRoomsKept(OnRematchOffer(c))
         /\ \A id \in RoomIds : PlayingRoomsKept(OnJoinRoom(c, id))
         /\ \A code \in FreeCodes : PlayingRoomsKept(OnCreateRoom(c, TheTc, code))
  /\ \A c \in Conns : connState[c] = "open" => PlayingRoomsKept(OnClose(c))
  /\ \A t \in timers :
       t.deadline <= now =>
         /\ t.kind = "disconnect" => PlayingRoomsKept(OnDisconnectTimer(t))
         /\ t.kind = "cleanup" => PlayingRoomsKept(OnCleanupTimer(t))

\* a room is in its second game, after an accepted rematch, and that game has ended:
\* one cleanup timer, the second finalization's, is pending
C26_Witness ==
  \E code \in LiveCodes :
    /\ rooms[code].dbGameId = 2 /\ rooms[code].status = "finished"
    /\ \E t \in timers : t.kind = "cleanup" /\ t.room = code

\* each room that finishGame finalized in the world w holds a cleanup timer that is
\* due ROOM_TTL_AFTER_END after now
CleanupScheduled(w) ==
  \A i \in 1..Len(w.fin) :
    \E t \in w.timers :
      /\ t.kind = "cleanup" /\ t.room = w.fin[i].room
      /\ t.id = w.rooms[t.room].cleanupTimer
      /\ t.deadline = now + ROOM_TTL_AFTER_END

\* C27 (SpecRematch): whichever event finalizes a room, it arms the room's cleanup
\* timer for 5 minutes later (the timer then stays pending until an accepted rematch,
\* C18 and C26); when the timer fires the room code leaves the room map, the sessions
\* of both slots have no registry entry and no timer of the room, cleanup or
\* disconnect-grace, is pending any more.
C27_CleanupAfterTtl ==
  /\ \A c \in Conns :
       Authed(c) =>
         /\ \A san \in Sans : CleanupScheduled(OnMove(c, san))
         /\ CleanupScheduled(OnResign(c))
         /\ CleanupScheduled(OnDrawRespond(c, TRUE))
  /\ \A t \in timers :
       (t.kind = "disconnect" /\ t.deadline <= now) => CleanupScheduled(OnDisconnectTimer(t))
  /\ \A t \in timers :
       (t.kind = "cleanup" /\ t.deadline <= now) =>
         LET w == OnCleanupTimer(t)
             room == rooms[t.room]
         IN /\ w.rooms[t.room] = NoRoom
            /\ room.white # NoSlot => w.sessionRooms[room.white.sessionId] = NoRoomId
            /\ room.black # NoSlot => w.sessionRooms[room.black.sessionId] = NoRoomId
            /\ \A u \in w.timers : u.room # t.room

\* a room has been cleaned up 5 minutes after its game ended: the game has a result,
\* no room is left and no session has a registry entry
C27_Witness ==
  /\ Len(dbGames) >= 1 /\ dbGames[1].result # ""
  /\ now >= TickMs + ROOM_TTL_AFTER_END
  /\ LiveCodes = {}
  /\ \A s \in Sessions : sessionRooms[s] = NoRoomId

\* C28 (SpecLobby): when the connection of the creator of a waiting room closes, the
\* room is removed at once: its code is free, the creator's session has no registry
\* entry, no timer is armed, and a join_room with the code that comes next, from any
\* other connection, is answered with the error "Room not found" and nothing else.
C28_WaitingRoomClosed ==
  \A c \in Conns, code \in LiveCodes :
    (/\ connState[c] = "open"
     /\ rooms[code].status = "waiting" /\ rooms[code].white.ws = c) =>
      LET w == OnClose(c)
      IN /\ w.rooms[code] = NoRoom
         /\ w.sessionRooms[rooms[code].white.sessionId] = NoRoomId
         /\ w.timers \subseteq timers
         /\ \A d \in Conns \ {c} :
              Authed(d) =>
                joinRoom([w EXCEPT !.sent = <<>>], d, connSession[d], Undefined, code).sent
                  = <<[to |-> d, type |-> "error", payload |-> ErrorPayload("Room not found")]>>

\* C29 (SpecRematch): a rematch_respond with accept = false from a player of a
\* finished room sends rematch_declined to the other player's connection, if the slot
\* holds one, leaves no rematch offer outstanding (rematchOfferedBy is none) and
\* changes nothing else: the room is otherwise the same (status, colours, move log)
\* and so are the timers (the cleanup timer and its deadline), the registry, the
\* queues and the stored games.
C29_DeclinedRematch ==
  \A c \in Conns :
    (/\ Authed(c)
     /\ RoomInStatus(World, connSession[c], "finished")
     /\ getPlayerSide(rooms[sessionRooms[connSession[c]]], connSession[c]) # NoSide) =>
      LET code == sessionRooms[connSession[c]]
          room == rooms[code]
          opponent == getPlayerBySide(room, Other(getPlayerSide(room, connSession[c])))
          w == OnRematchRespond(c, FALSE)
      IN /\ opponent.ws # NoWs => FramesTo(w, opponent.ws, "rematch_declined") # {}
         /\ w.rooms = [rooms EXCEPT ![code].rematchOfferedBy = NoSide]
         /\ w.timers = timers /\ w.sessionRooms = sessionRooms /\ w.queues = queues
         /\ w.dbGames = dbGames /\ w.dbMoves = dbMoves

\* the tags a queue can have
QueueTags == {"any", "1+0", "5+0"}
\* the sessions waiting in the queue of a tag, longest-waiting first
QueueSessions(qs, tag) ==
  IF QueueIndex(qs, tag) = 0 THEN <<>>
  ELSE [j \in 1..Len(qs[QueueIndex(qs, tag)].q) |-> qs[QueueIndex(qs, tag)].q[j].sessionId]
\* the sequence without the session s, the others in their order
Without(seq, s) ==
  LET Keep(x) == x # s IN SelectSeq(seq, Keep)
\* the queue the claim pairs a join of tag tc from: its index in the Map, 0 for none
PairedQueue(qs, tc) ==
  IF tc = "any" THEN (IF \E i \in 1..Len(qs) : Len(qs[i].q) > 0
                        THEN Min({i \in 1..Len(qs) : Len(qs[i].q) > 0}) ELSE 0)
  ELSE IF QueueSessions(qs, tc) # <<>> THEN QueueIndex(qs, tc)
  ELSE IF QueueSessions(qs, "any") # <<>> THEN QueueIndex(qs, "any")
  ELSE 0
\* one queue of tag "1+0" that holds the sessions of seq, in that order
OneQueue(seq) ==
  <<[tc |-> "1+0", q |-> [j \in 1..Len(seq) |-> [ws |-> ConnOrder[j], sessionId |-> seq[j],
                                                  name |-> "Player"]]]>>
\* the orders in which one, two or three sessions can wait in one queue
WaitingOrders ==
  {seq \in UNION {[1..n -> Sessions] : n \in 1..MaxQueueLen} :
     \A i, j \in 1..Len(seq) : i # j => seq[i] # seq[j]}

\* C30 (SpecLobby): a quick_match of a session that is neither queued nor seated is
\* paired with the head of the queue of its tag if that queue has entries, otherwise
\* of the "any" queue, and, for the tag "any", of the first queue of the Map that has
\* entries; the head leaves its queue and the other entries keep their order; with no
\* such queue the session is appended to the queue of its tag.  cancel_queue and a
\* connection close remove the session's entry and keep the order of the others.  In
\* the program a queue never holds two entries, so the order within a queue is also
\* checked on the operations themselves, for queues of up to MaxQueueLen entries
\* (that part does not depend on the state and is evaluated in the initial one).
C30_MatchOrder ==
  /\ \A c \in Conns, tag \in LobbyTags, coin \in BOOLEAN, code \in FreeCodes :
       (/\ Authed(c) /\ ~InQueue(queues, connSession[c])
        /\ getRoomForSession(World, connSession[c]) = NoRoom) =>
         LET s == connSession[c]
             tc == IF tag = Undefined THEN DEFAULT_TC ELSE tag
             i == PairedQueue(queues, tc)
             w == OnQuickMatch(c, tag, coin, code)
         IN IF i # 0
              THEN /\ w.rooms[code] # NoRoom
                   /\ {w.rooms[code].white.sessionId, w.rooms[code].black.sessionId}
                        = {s, queues[i].q[1].sessionId}
                   /\ \A t \in QueueTags :
                        QueueSessions(w.queues, t) =
                          IF t = queues[i].tc THEN Tail(QueueSessions(queues, t))
                          ELSE QueueSessions(queues, t)
              ELSE /\ w.rooms = rooms
                   /\ \A t \in QueueTags :
                        QueueSessions(w.queues, t) =
                          IF t = tc THEN Append(QueueSessions(queues, t), s)
                          ELSE QueueSessions(queues, t)
  /\ \A c \in Conns, t \in QueueTags :
       Authed(c) =>
         /\ QueueSessions(OnCancelQueue(c).queues, t)
              = Without(QueueSessions(queues, t), connSession[c])
         /\ QueueSessions(OnClose(c).queues, t)
              = Without(QueueSessions(queues, t), connSession[c])
  /\ (\A c \in Conns : connState[c] = "new") =>
       \A seq \in WaitingOrders :
         /\ \A tc \in {"1+0", "any"} :
              /\ findMatch(OneQueue(seq), tc).opponent.sessionId = seq[1]
              /\ QueueSessions(findMatch(OneQueue(seq), tc).queues, "1+0") = Tail(seq)
         /\ \A s \in Sessions :
              QueueSessions(removeFromQueue(OneQueue(seq), s), "1+0") = Without(seq, s)

\* two queues wait, "5+0" created before "1+0", and a third session is free to join
\* with the tag "any": it is paired from the "5+0" queue
C30_Witness ==
  /\ Len(queues) = 2 /\ queues[1].tc = "5+0" /\ queues[2].tc = "1+0"
  /\ \E c \in Conns : /\ Authed(c) /\ ~InQueue(queues, connSession[c])
                      /\ getRoomForSession(World, connSession[c]) = NoRoom

\* in the program no queue of the Map is empty or holds more than one entry
QueuesHoldOneEntry == \A i \in 1..Len(queues) : Len(queues[i].q) = 1

\* the handler's world w differs from the state in no queue, room or registry entry
LobbyUnchanged(w) ==
  w.queues = queues /\ w.rooms = rooms /\ w.sessionRooms = sessionRooms
\* the handler wrote one frame, an error with this text, to connection c
OnlyError(w, c, text) ==
  w.sent = <<[to |-> c, type |-> "error", payload |-> ErrorPayload(text)]>>
\* the number of queue entries of session s, over all queues
EntriesOf(qs, s) ==
  Cardinality({ij \in {<<i, j>> : i \in 1..Len(qs), j \in 1..MaxQueueLen} :
                 ij[2] <= Len(qs[ij[1]].q) /\ qs[ij[1]].q[ij[2]].sessionId = s})

\* C31 (SpecLobby): a quick_match from a session that is an entry of a queue is answered
\* with the error "Already in queue" alone, one from a session the registry seats in a
\* room (of any status) with "Already in a game" alone; neither changes a queue, a room
\* or the registry; and no session is an entry of the queues more than once.
C31_QuickMatchRejected ==
  /\ \A c \in Conns, tag \in LobbyTags, coin \in BOOLEAN, code \in FreeCodes :
       Authed(c) =>
         LET s == connSession[c]
             w == OnQuickMatch(c, tag, coin, code)
         IN /\ InQueue(queues, s) => OnlyError(w, c, "Already in queue") /\ LobbyUnchanged(w)
            /\ (~InQueue(queues, s) /\ sessionRooms[s] # NoRoomId) =>
                 OnlyError(w, c, "Already in a game") /\ LobbyUnchanged(w)
  /\ \A s \in Sessions : EntriesOf(queues, s) <= 1

\* the queue entries of qs, each with the tag of its queue
Entries(qs) ==
  UNION {{[tc |-> qs[i].tc, e |-> qs[i].q[j]] : j \in 1..Len(qs[i].q)} : i \in 1..Len(qs)}
\* the entries that stand in a queue although their connection is not open
DeadEntries == {x \in Entries(queues) : x.e.ws \notin World.open}
\* the entries that the handler's world w no longer holds
Popped(w) == Entries(queues) \ Entries(w.queues)

\* C32 (SpecClosing): a quick_match of a session that is neither queued nor seated
\* ends in one of two ways.  Either a room is created for the caller and one entry
\* that was in a queue with an open connection, and the caller is in no queue; or no
\* room is created and the caller is exactly one entry, of the queue of its own tag.
\* Every entry that left a queue is dead or is that one opponent, and no session of
\* a popped entry is in any queue afterwards.
C32_DeadEntriesDiscarded ==
  \A c \in Conns, tag \in LobbyTags, coin \in BOOLEAN, code \in FreeCodes :
    (/\ Authed(c) /\ ~InQueue(queues, connSession[c])
     /\ getRoomForSession(World, connSession[c]) = NoRoom) =>
      LET s == connSession[c]
          tc == IF tag = Undefined THEN DEFAULT_TC ELSE tag
          w == OnQuickMatch(c, tag, coin, code)
          live == Popped(w) \ DeadEntries
      IN /\ \A x \in Popped(w) : ~InQueue(w.queues, x.e.sessionId)
         /\ Entries(w.queues) \ Entries(queues) \subseteq {[tc |-> tc, e |-> [ws |-> c, sessionId |-> s, name |-> "Player"]]}
         /\ IF w.rooms[code] # NoRoom
              THEN /\ ~InQueue(w.queues, s)
                   /\ \E x \in live :
                        /\ live = {x}
                        /\ {w.rooms[code].white.sessionId, w.rooms[code].black.sessionId}
                             = {s, x.e.sessionId}
                        /\ {w.rooms[code].white.ws, w.rooms[code].black.ws} = {c, x.e.ws}
                        /\ x.e.ws \in World.open
              ELSE /\ w.rooms = rooms
                   /\ live = {}
                   /\ EntriesOf(w.queues, s) = 1
                   /\ s \in {QueueSessions(w.queues, tc)[j] : j \in 1..Len(QueueSessions(w.queues, tc))}

\* the queue "5+0" holds a dead entry and was created before the queue "1+0", which
\* holds a live one; a third session joins with the tag "any": the dead entry is
\* popped and discarded, the retry pairs the caller with the live one
C32_Witness ==
  /\ Len(queues) = 2 /\ queues[1].tc = "5+0" /\ queues[2].tc = "1+0"
  /\ queues[1].q[1].ws \notin World.open /\ queues[2].q[1].ws \in World.open
  /\ \E c \in Conns, code \in FreeCodes :
       /\ Authed(c) /\ ~InQueue(queues, connSession[c])
       /\ getRoomForSession(World, connSession[c]) = NoRoom
       /\ OnQuickMatch(c, "any", TRUE, code).queues = <<>>
       /\ OnQuickMatch(c, "any", TRUE, code).rooms[code].white.sessionId = queues[2].q[1].sessionId

\* the frames of type game_start that the handler's world w wrote
StartFrames(w) == {i \in 1..Len(w.sent) : w.sent[i].type = "game_start"}

\* C33 (SpecClosing): when a quick_match finds a live opponent, the handler leaves a
\* room in status playing whose two players are the caller and the opponent, white
\* being the one createRoom was called for (the opponent if the coin says so, else
\* the caller); the caller's and the opponent's connection get one game_start each,
\* with their own colour, and no other game_start is written; the registry maps both
\* sessions to the new room and neither is in a queue.  No state shows a waiting
\* room: the matchmaker's createRoom and joinRoom are one step.
C33_PairingAtomic ==
  /\ \A code \in LiveCodes : rooms[code].status # "waiting"
  /\ \A c \in Conns, tag \in LobbyTags, coin \in BOOLEAN, code \in FreeCodes :
       LET s == connSession[c]
           w == OnQuickMatch(c, tag, coin, code)
           room == w.rooms[code]
       IN (Authed(c) /\ room # NoRoom) =>
            \E x \in Popped(w) \ DeadEntries :
              LET white == IF coin THEN x.e ELSE [ws |-> c, sessionId |-> s]
                  black == IF coin THEN [ws |-> c, sessionId |-> s] ELSE x.e
              IN /\ x.e.sessionId # s
                 /\ room.status = "playing"
                 /\ room.white.sessionId = white.sessionId /\ room.white.ws = white.ws
                 /\ room.black.sessionId = black.sessionId /\ room.black.ws = black.ws
                 /\ room.white.connected /\ room.black.connected
                 /\ \E i \in StartFrames(w), j \in StartFrames(w) :
                      /\ StartFrames(w) = {i, j}
                      /\ w.sent[i].to = white.ws /\ w.sent[i].payload.color = "w"
                      /\ w.sent[j].to = black.ws /\ w.sent[j].payload.color = "b"
                      /\ w.sent[i].payload.roomId = code /\ w.sent[j].payload.roomId = code
                 /\ w.sessionRooms[s] = code /\ w.sessionRooms[x.e.sessionId] = code
                 /\ ~InQueue(w.queues, s) /\ ~InQueue(w.queues, x.e.sessionId)

\* a session waits in a queue on an open connection and another, free, is about to
\* be paired with it
C33_Witness ==
  \E c \in Conns, code \in FreeCodes :
    /\ Authed(c) /\ ~InQueue(queues, connSession[c])
    /\ Len(queues) = 1 /\ queues[1].q[1].ws \in World.open
    /\ OnQuickMatch(c, "any", FALSE, code).rooms[code] # NoRoom
    /\ OnQuickMatch(c, "any", FALSE, code).rooms[code].white.sessionId = connSession[c]

\* the time the side to move of `room` has left, before the increment, if it makes
\* a legal move now: what makeMove leaves in its clock, less the increment it added
LeftIfMovedNow(room) ==
  LET mover == ChessTurn(room.chess)
      after == makeMove(World, getPlayerBySide(room, mover).sessionId, "Nf3").w.rooms[room.id]
  IN IF ClockRuns(room) /\ after.status = "playing"
       THEN after.clocks[mover] - after.clocks.increment
       ELSE after.clocks[mover]
\* the clocks of every reconnect frame that w wrote follow the display rule for `room`
ReconnectClocksShown(w, room) ==
  \A i \in 1..Len(w.sent) :
    (w.sent[i].type = "reconnect" /\ w.sent[i].payload.clocks # NoClocks) =>
      LET mover == ChessTurn(room.chess)
          shown == w.sent[i].payload.clocks
          left == room.clocks[mover] - (now - room.clocks.lastMoveAt)
      IN /\ shown[mover] = IF left > 0 THEN left ELSE 0
         /\ shown[Other(mover)] = room.clocks[Other(mover)]
         /\ moveError(World, getPlayerBySide(room, mover).sessionId, "Nf3") = "" =>
              shown[mover] = LeftIfMovedNow(room)

\* C34 (Spec): in every reconnect frame, written for a join_room or for an auth, the
\* clock of the side to move is max(0, stored clock - (now - lastMoveAt)) and the
\* clock of the other side is the stored one; and the clock shown for the side to
\* move is the time that side has left, before the increment, if it moves at that
\* instant, also before the first move of the game.
C34_ReconnectClocks ==
  /\ \A c \in Conns :
       (Authed(c) /\ rooms[TheCode] # NoRoom) =>
         ReconnectClocksShown(OnJoinRoom(c, TheCode), rooms[TheCode])
  /\ \A c \in Conns, s \in Players :
       (connState[c] = "open" /\ connSession[c] = NoSession /\ rooms[TheCode] # NoRoom) =>
         ReconnectClocksShown(OnAuth(c, s), rooms[TheCode])

\* every room of the state that has two players has the same two in the world w
SeatsKept(w) ==
  \A code \in LiveCodes :
    (rooms[code].black # NoSlot /\ w.rooms[code] # NoRoom) =>
      /\ w.rooms[code].white.sessionId = rooms[code].white.sessionId
      /\ w.rooms[code].black.sessionId = rooms[code].black.sessionId

\* C35 (SpecJoin): a join_room is answered with one error frame and changes no room,
\* registry entry or queue when no room has the upper-cased code ("Room not found"),
\* when the room is finished ("Room is not accepting players"), when it is waiting
\* and the sender is its creator ("You are already in this room"), and when it is
\* playing and the sender is neither of its players ("You are not a player in this
\* room").  No join_room, and no other event, replaces a player of a room that has
\* two: a room never gets a third player.
C35_JoinRejected ==
  /\ \A c \in Conns, id \in RoomIds :
       Authed(c) =>
         LET s == connSession[c]
             room == rooms[toUpperCase(id)]
             w == OnJoinRoom(c, id)
             Rejected(text) == OnlyError(w, c, text) /\ LobbyUnchanged(w)
         IN /\ room = NoRoom => Rejected("Room not found")
            /\ (room # NoRoom /\ room.status = "finished") =>
                 Rejected("Room is not accepting players")
            /\ (room # NoRoom /\ room.status = "waiting" /\ room.white.sessionId = s) =>
                 Rejected("You are already in this room")
            /\ (room # NoRoom /\ room.status = "playing"
                 /\ s \notin {room.white.sessionId, room.black.sessionId}) =>
                 Rejected("You are not a player in this room")
            /\ SeatsKept(w)
  /\ \A c \in Conns :
       Authed(c) =>
         /\ SeatsKept(OnResign(c)) /\ SeatsKept(OnClose(c))
         /\ \A code \in FreeCodes : SeatsKept(OnCreateRoom(c, "none", code))
  /\ \A c \in Conns, s \in Sessions :
       (connState[c] = "open" /\ connSession[c] = NoSession) => SeatsKept(OnAuth(c, s))

\* one room is playing, one is finished and one session, on an open connection, is
\* a player of neither
C35_Witness ==
  /\ rooms["ABCDEF"] # NoRoom /\ rooms["ABCDEF"].status = "playing"
  /\ rooms["GHJKLM"] # NoRoom /\ rooms["GHJKLM"].status = "finished"
  /\ \E c \in Conns : /\ Authed(c)
                      /\ connSession[c] \notin {rooms["ABCDEF"].white.sessionId,
                                               rooms["ABCDEF"].black.sessionId}
                      /\ OnlyError(OnJoinRoom(c, "abcdef"), c, "You are not a player in this room")

\* the session of the slot of `room` that plays `side`
SeatedAt(room, side) == IF side = "w" THEN room.white.sessionId ELSE room.black.sessionId
\* the side that makes the move of ply i
SideOfPly(i) == IF i % 2 = 0 THEN "w" ELSE "b"

\* C36 (SpecRematch): in every live room the i-th entry of the move log, counted from
\* 0, has ply i and side white for even i, black for odd i.  A move message changes
\* the log of a room only by appending one entry, with the next ply, the side to move
\* and the SAN of the message, to the playing room the registry gives for the sender,
\* and the sender is the session seated at that side; a move message from any other
\* session changes neither the position nor the log of a room.
C36_MoveLog ==
  /\ \A code \in LiveCodes : \A i \in 1..Len(rooms[code].moves) :
       /\ rooms[code].moves[i].ply = i - 1
       /\ rooms[code].moves[i].side = SideOfPly(i - 1)
  /\ \A c \in Conns, san \in Sans :
       Authed(c) =>
         LET s == connSession[c]
             w == OnMove(c, san)
         IN \A code \in LiveCodes :
              LET room == rooms[code]
                  after == w.rooms[code]
                  turn == ChessTurn(room.chess)
              IN /\ after # NoRoom
                 /\ (after.chess # room.chess \/ after.moves # room.moves) =>
                      /\ room.status = "playing" /\ sessionRooms[s] = code
                      /\ SeatedAt(room, turn) = s
                      /\ turn = SideOfPly(Len(room.moves))
                      /\ after.chess = ChessMove(room.chess, san)
                 /\ after.moves # room.moves =>
                      /\ Len(after.moves) = Len(room.moves) + 1
                      /\ SubSeq(after.moves, 1, Len(room.moves)) = room.moves
                      /\ after.moves[Len(after.moves)].ply = Len(room.moves)
                      /\ after.moves[Len(after.moves)].side = turn
                      /\ after.moves[Len(after.moves)].san = san

\* the second game of a room, colours swapped, with a move made by its white player
\* and its black player about to answer
C36_Witness ==
  \E code \in LiveCodes, c \in Conns :
    /\ Len(dbGames) = 2 /\ rooms[code].status = "playing" /\ Len(rooms[code].moves) = 1
    /\ Authed(c) /\ connSession[c] = rooms[code].black.sessionId
    /\ Len(OnMove(c, "Nf3").rooms[code].moves) = 2

\* C37 (SpecRematch): a rematch_respond with accept = true takes a finished room to
\* playing only when the room records a rematch offer of the sender's opponent:
\* with no offer recorded, or with the sender's own offer recorded, the room stays
\* finished.
C37_RematchNeedsBoth ==
  \A c \in Conns, code \in LiveCodes :
    (Authed(c) /\ rooms[code].status = "finished"
     /\ OnRematchRespond(c, TRUE).rooms[code].status = "playing") =>
      /\ getPlayerSide(rooms[code], connSession[c]) # NoSide
      /\ rooms[code].rematchOfferedBy = Other(getPlayerSide(rooms[code], connSession[c]))

\* C38 (SpecCleanup): the firing of the cleanup timer of a room leaves the registry
\* entry of every session intact that the registry maps to another room, so a
\* player of the finished room who has created or joined another room is still
\* routed to it.
C38_CleanupKeepsOtherEntries ==
  \A t \in timers :
    (t.kind = "cleanup" /\ t.deadline <= now) =>
      \A s \in Sessions :
        (sessionRooms[s] # NoRoomId /\ sessionRooms[s] # t.room) =>
          OnCleanupTimer(t).sessionRooms[s] = sessionRooms[s]

\* the stored moves of game g
RowsOf(moves, g) == {r \in moves : r.game_id = g}
\* the worlds that the handlers leave when they run in the state: one for every frame
\* an authenticated connection can send, every close and every timer that is due
HandlerWorlds ==
  LET A == {c \in Conns : Authed(c)}
  IN UNION {
       {OnMove(c, san) : c \in A, san \in Sans},
       {OnResign(c) : c \in A}, {OnDrawOffer(c) : c \in A},
       {OnDrawRespond(c, accept) : c \in A, accept \in BOOLEAN},
       {OnRematchOffer(c) : c \in A},
       {OnRematchRespond(c, accept) : c \in A, accept \in BOOLEAN},
       {OnJoinRoom(c, id) : c \in A, id \in RoomIds},
       {OnCreateRoom(c, TheTc, code) : c \in A, code \in FreeCodes},
       {OnQuickMatch(c, "any", coin, code) : c \in A, coin \in BOOLEAN, code \in FreeCodes},
       {OnClose(c) : c \in A},
       {OnAuth(c, s) : c \in {d \in Conns : connState[d] = "open" /\ connSession[d] = NoSession},
                       s \in Sessions},
       {OnDisconnectTimer(t) : t \in {u \in timers : u.kind = "disconnect" /\ u.deadline <= now}},
       {OnCleanupTimer(t) : t \in {u \in timers : u.kind = "cleanup" /\ u.deadline <= now}}}
\* what the handler that left w did to the stored games and moves keeps the order
CallsOrdered(w) ==
  /\ Len(w.dbGames) \in {Len(dbGames), Len(dbGames) + 1}
  /\ Len(w.dbGames) = Len(dbGames) + 1 =>
       /\ Cardinality({code \in Codes : /\ w.rooms[code] # NoRoom
                                      /\ w.rooms[code].dbGameId = Len(w.dbGames)}) = 1
       /\ w.dbGames[Len(w.dbGames)].result = ""
       /\ RowsOf(w.dbMoves, Len(w.dbGames)) = {}
  /\ \A code \in Codes :
       (w.rooms[code] # NoRoom /\ w.rooms[code].status # "waiting"
        /\ (rooms[code] = NoRoom \/ w.rooms[code].dbGameId # rooms[code].dbGameId)) =>
         w.rooms[code].dbGameId = Len(dbGames) + 1 /\ Len(w.dbGames) = Len(dbGames) + 1
  /\ \A g \in 1..Len(dbGames) :
       /\ w.dbGames[g] # dbGames[g] => dbGames[g].result = "" /\ w.dbGames[g].result # ""
       /\ RowsOf(w.dbMoves, g) # RowsOf(dbMoves, g) =>
            /\ dbGames[g].result = ""
            /\ \E r \in w.dbMoves :
                 /\ r.ply = Cardinality(RowsOf(dbMoves, g))
                 /\ RowsOf(w.dbMoves, g) = RowsOf(dbMoves, g) \cup {r}
  /\ Len(w.fin) <= 1

\* C39 (SpecRematch): the stored games and moves are written in order.  In every
\* state the moves stored for a game have the plies 0, 1, 2, ... without a gap, no
\* two live rooms have the same game id, and a room that is playing has the id of a
\* stored game that has no result and as many stored moves as its log has entries.
\* Every handler creates at most one game, whose id is new and is given to one room;
\* stores at most one move per game, with the next ply, for a game that has no
\* result; gives a result only to a game that has none; and finalizes at most once.
C39_PersistenceOrdered ==
  /\ \A g \in 1..Len(dbGames) :
       {r.ply : r \in RowsOf(dbMoves, g)} = 0..(Cardinality(RowsOf(dbMoves, g)) - 1)
  /\ \A r \in dbMoves : r.game_id \in 1..Len(dbGames)
  /\ \A code \in LiveCodes :
       rooms[code].status # "waiting" =>
         /\ rooms[code].dbGameId \in 1..Len(dbGames)
         /\ \A other \in LiveCodes \ {code} : rooms[other].dbGameId # rooms[code].dbGameId
         /\ rooms[code].status = "playing" =>
              /\ dbGames[rooms[code].dbGameId].result = ""
              /\ Cardinality(RowsOf(dbMoves, rooms[code].dbGameId)) = Len(rooms[code].moves)
         /\ rooms[code].status = "finished" => dbGames[rooms[code].dbGameId].result # ""
  /\ \A w \in HandlerWorlds : CallsOrdered(w)

\* the second game of a room has a stored move and the first one a result and its
\* own stored move
C39_Witness ==
  /\ Len(dbGames) = 2 /\ dbGames[1].result # "" /\ dbGames[2].result = ""
  /\ RowsOf(dbMoves, 1) # {} /\ RowsOf(dbMoves, 2) # {}
  /\ \E code \in LiveCodes : rooms[code].status = "playing" /\ rooms[code].dbGameId = 2

\* C40 (SpecRematch): when a rematch is accepted in a finished room, each of the two
\* players whose session holds an open authenticated connection gets rematch_start
\* on an open connection of its session, and its slot in the new game is marked
\* connected; so also a player whose connection closed and who authenticated on a
\* new one while the room was finished.
C40_BroadcastReachesSeated ==
  \A c \in Conns, code \in LiveCodes :
    (Authed(c) /\ rooms[code].status = "finished"
     /\ OnRematchRespond(c, TRUE).rooms[code].status = "playing") =>
      LET w == OnRematchRespond(c, TRUE)
          after == w.rooms[code]
      IN \A side \in {"w", "b"} :
           ~Absent(getPlayerBySide(after, side).sessionId) =>
             /\ getPlayerBySide(after, side).connected
             /\ \E d \in w.open :
                  /\ connSession[d] = getPlayerBySide(after, side).sessionId
                  /\ \E i \in FramesTo(w, d, "rematch_start") : w.sent[i].payload.color = side

====
